---- MODULE Spec2Model ----
(***************************************************************************)
(* Model of the mouse-api repository's LLM gateway (mcp_client/server.py),  *)
(* its LLM clients (mcp_client/client.py, mcp_client/mouse_integration.py), *)
(* the automation tool server (mcp_mouse/server.py), the remote OCR client  *)
(* (ocr_api_client.py) and the automation API server (mouse_api.py).        *)
(*                                                                          *)
(* The specifications share the module's variables:                         *)
(*   Spec            the gateway, one connection, all request bodies        *)
(*   SpecConcurrent  the gateway, two concurrent connections                *)
(*   SpecClient      one augmented client driven through its operations     *)
(*   SpecTools       tool calls of the automation tool server               *)
(*   SpecParse       _parse_mouse_actions applied to model responses        *)
(*   SpecWait        wait_for_completion polling the OCR service            *)
(*   SpecApi         the routes of the automation API server                *)
(*   SpecScreen      region search, capture at the cursor, image clicking   *)
(*   SpecSave        the tool server saving captured images to files        *)
(*   SpecText        find_text_positions: filtering, grouping, matching     *)
(*   SpecSubseq      is_subsequence applied to targets and texts            *)
(***************************************************************************)
EXTENDS Integers, Sequences, FiniteSets, TLC

VARIABLES
    \* ---- gateway (mcp_client/server.py) ----
    server,      \* MCPServer fields: [model, enable_mouse]
    route,       \* per connection: "none" | "mcp" | "enhanced" | "ws"
    pc,          \* per connection: position of the route handler
    client,      \* per connection: the client object of the handler's scope
    frame,       \* per connection: body of the request / of the frame being handled
    data,        \* per connection: the handler's local variable `data`
    pending,     \* per connection: outcome of the dispatch, not yet sent
    reply,       \* per connection: the last reply / response sent
    nread,       \* per connection: number of text frames read
    nresolved,   \* per connection: number of text frames whose handling ended
    resolution,  \* per connection: how the last frame's handling ended
    wsClosed,    \* per connection: ws.closed
    exitPath,    \* per connection: how the owning scope ended
    \* ---- augmented client (mcp_client/mouse_integration.py) ----
    mc,          \* the client object
    mcPc,        \* "idle" | "ready" | "exec" (inside _execute_mouse_actions)
    call,        \* the current / last operation on the client
    initLog,     \* what the initialize() calls on this client have reported
    \* ---- automation tool server (mcp_mouse/server.py) ----
    tcall,       \* per tool call: [tool, server, pc, names, cli]
    apiClients,  \* every MouseApiClient created: [owner, client, ocr_client]
    \* ---- directive parsing (mcp_client/mouse_integration.py) ----
    response,    \* the directive bodies of an LLM reply, in text order
    parsePc,     \* "idle" | "call" | "done"
    parsed,      \* what _parse_mouse_actions returned: [raised, actions]
    \* ---- remote OCR client (ocr_api_client.py) ----
    waitPc,      \* position in wait_for_completion
    elapsed,     \* time.time() - start_time, in seconds
    polls,       \* status requests sent so far
    seen,        \* statuses the polls have reported: [completed, not_found, failed]
    waitResult,  \* "none" | "True" | "False" | "raised"
    \* ---- automation API server (mouse_api.py) ----
    caps,        \* the capability flags set at startup
    pointer,     \* the pointer position <<x, y>>
    clipboard,   \* the text on the clipboard
    areq,        \* the request being served: [route, body, env, pointer0, clipboard0]
    aresp,       \* the response: [code, status, error, details]
    effects,     \* the operations the handler performed, in order
    ocrUse,      \* what the OCR engines did during the request
    apiPc,       \* "off" | "idle" | "done"
    \* ---- automation API server: screen geometry of the routes ----
    screen,      \* size of the full screenshot: [width, height]
    sreq,        \* the request being served: [route, args, env]
    sresp,       \* the response: [code, status, error, details]
    clicks,      \* the points pyautogui.click was called with, in order
    ocrBox,      \* the box of the image OCR ran on, <<>> when it did not run
    scrPc,       \* "off" | "idle" | "done"
    \* ---- automation tool server: the output directory ----
    output,      \* names of the files in OUTPUT_DIR
    saved,       \* the names _save_base64_image_to_png wrote, in order
    \* ---- local OCR engine and text matching (mouse_api.py) ----
    engine,      \* OCR_METHOD: "API" | "TESSERACT"
    words,       \* the records the engine recognised (best_results)
    target,      \* target_text
    filtered,    \* what process_image_with_tesseract returned
    grouped,     \* grouped_results: what the first group_nearby_text returned
    ocr_method_used,  \* "none" | "API" | "Tesseract" | "Tesseract (fallback)"
    textMatches, \* what find_text_positions returned
    textPc,      \* "off" | "raw" | "filtered" | "done"
    \* ---- is_subsequence (mouse_api.py) ----
    subTarget,   \* target
    subText,     \* text
    subResult    \* <<>> before the call, then << returned value >>

gwVars   == <<server, route, pc, client, frame, data, pending, reply,
              nread, nresolved, resolution, wsClosed, exitPath>>
clVars   == <<mc, mcPc, call, initLog>>
toolVars == <<tcall, apiClients>>
parseVars == <<response, parsePc, parsed>>
ocrVars  == <<waitPc, elapsed, polls, seen, waitResult>>
apiVars  == <<caps, pointer, clipboard, areq, aresp, effects, ocrUse, apiPc>>
scrVars  == <<screen, sreq, sresp, clicks, ocrBox, scrPc>>
saveVars == <<output, saved>>
textVars == <<engine, words, target, filtered, grouped, ocr_method_used,
              textMatches, textPc>>
subVars  == <<subTarget, subText, subResult>>
pureVars == <<scrVars, saveVars, textVars, subVars>>
vars     == <<gwVars, clVars, toolVars, parseVars, ocrVars, apiVars, pureVars>>

-----------------------------------------------------------------------------
(* Bounds *)

MaxFrames  == 2      \* text frames read on one WebSocket connection
MaxActions == 2      \* directives in one LLM reply
MaxCalls   == 2      \* tool calls of the tool server
MaxArgs    == 3      \* arguments of one directive
MaxMatches == 3      \* directives of one parsed reply
MaxScreen  == 3      \* width and height of the small screens
MaxSize    == 3      \* largest small requested capture size
MaxFound   == 2      \* matches one search returns
MaxSaves   == 3      \* screenshots saved in one run
MaxTarget  == 3      \* characters of a subsequence target
MaxText    == 4      \* characters of a candidate text
MaxWords   == 3      \* records the OCR engine reports for one image
MaxCoord   == 1      \* largest screen coordinate

Conns == {"c1", "c2"}    \* two concurrent requests / connections

-----------------------------------------------------------------------------
(* Values *)

None == "None"                       \* Python's None / a missing JSON key

ConfiguredModel == "gpt-oss:20b"     \* MCPServer(model=...)
OtherModel      == "llama2"

\* Outcomes of GET {ollama}/api/tags: a status and the reported model names.
TagsOutcomes ==
    { [status |-> 500, models |-> <<>>],
      [status |-> 200, models |-> <<>>],
      [status |-> 200, models |-> <<ConfiguredModel>>],
      [status |-> 200, models |-> <<OtherModel>>],
      [status |-> 200, models |-> <<OtherModel, ConfiguredModel>>] }

\* The runtime of an augmented client may also report two models, neither of
\* them the configured one
ThirdModel == "mistral"
ClientTagsOutcomes ==
    TagsOutcomes \cup { [status |-> 200, models |-> <<OtherModel, ThirdModel>>] }

\* Outcomes of GET {mouse_api}/health
ProbeOutcomes == {"200", "503", "transport_error"}

InSeq(x, s) == \E i \in 1..Len(s) : s[i] = x

-----------------------------------------------------------------------------
(* LLM gateway client: OllamaMCPClient and MouseCapableOllamaClient *)

NoClient ==
    [cls |-> "none", model |-> None, mouse_tools_enabled |-> FALSE, session |-> "none"]

\* OllamaMCPClient.__init__ ; the base class has no automation capability
OllamaMCPClient(model) ==
    [cls |-> "OllamaMCPClient", model |-> model,
     mouse_tools_enabled |-> FALSE, session |-> "none"]

\* MouseCapableOllamaClient.__init__
MouseCapableOllamaClient(model) ==
    [cls |-> "MouseCapableOllamaClient", model |-> model,
     mouse_tools_enabled |-> TRUE, session |-> "none"]

\* __aenter__
aenter(cl) == [cl EXCEPT !.session = "open"]

aexitLeakOnError(cl, exc) ==
    IF cl.session = "open" /\ ~exc THEN [cl EXCEPT !.session = "closed"] ELSE cl

\* __aexit__(exc_type, ...): closes the session whatever the exit was
aexit(cl, exc) ==
    IF cl.session = "open" THEN [cl EXCEPT !.session = "closed"] ELSE cl

NoResult == [status |-> "none"]

OllamaInitializeLast(cl, tags) ==
    IF tags.status = 200
    THEN LET m == IF ~InSeq(cl.model, tags.models) /\ tags.models # <<>>
                  THEN tags.models[Len(tags.models)] ELSE cl.model
         IN  [client |-> [cl EXCEPT !.model = m],
              raised |-> FALSE,
              result |-> [status |-> "initialized", model |-> m,
                          available_models |-> tags.models]]
    ELSE [client |-> cl, raised |-> TRUE, result |-> NoResult]

\* OllamaMCPClient.initialize
OllamaInitialize(cl, tags) ==
    IF tags.status = 200
    THEN LET m == IF ~InSeq(cl.model, tags.models) /\ tags.models # <<>>
                  THEN tags.models[1] ELSE cl.model
         IN  [client |-> [cl EXCEPT !.model = m],
              raised |-> FALSE,
              result |-> [status |-> "initialized", model |-> m,
                          available_models |-> tags.models]]
    ELSE [client |-> cl, raised |-> TRUE, result |-> NoResult]

ProbeKeepsFlagOnTransportError(flag, probe) ==
    IF probe = "503" THEN FALSE ELSE flag

ProbeReenables(flag, probe) == probe = "200"

\* The capability flag after the health probe of MouseCapableOllamaClient.initialize
FlagAfterProbe(flag, probe) ==
    IF probe = "200" THEN flag ELSE FALSE

\* MouseCapableOllamaClient.initialize
MouseInitialize(cl, tags, probe) ==
    LET base == OllamaInitialize(cl, tags)
    IN  IF base.raised THEN base
        ELSE [client |-> [base.client EXCEPT
                            !.mouse_tools_enabled = FlagAfterProbe(@, probe)],
              raised |-> FALSE,
              result |-> base.result @@ [mouse_api_available |-> (probe = "200")]]

\* client.initialize(): dispatched on the object's class
Initialize(cl, tags, probe) ==
    IF cl.cls = "MouseCapableOllamaClient"
    THEN MouseInitialize(cl, tags, probe)
    ELSE OllamaInitialize(cl, tags)

-----------------------------------------------------------------------------
(* MCP messages and the gateway's dispatch *)

Methods == {"initialize", "completion", "chat", "enhanced_completion", "bogus"}
Ids     == {None, "a", "b"}

\* A request body / text frame: undecodable, JSON that is not an object,
\* or an object with `method` and `id` (None: key missing).
BadJson   == [json |-> "bad",       method |-> None, id |-> None]
NonObject == [json |-> "nonobject", method |-> None, id |-> None]
Unbound   == [json |-> "unbound",   method |-> None, id |-> None]
ObjectBodies  == [json : {"object"}, method : Methods, id : Ids]
Bodies        == {BadJson, NonObject} \cup ObjectBodies
PromptBodies  == {BadJson, NonObject, [json |-> "object", method |-> None, id |-> None]}

\* Outcomes of the upstream calls a dispatch may make
Ups == [tags : TagsOutcomes, probe : ProbeOutcomes, llm : BOOLEAN]

HandlerResult(cl, err, h) ==
    [client |-> cl, raised |-> (err # None), err |-> err, handler |-> h]

\* send_prompt / chat / send_enhanced_prompt as the gateway sees them:
\* the LLM call returns a result or raises an upstream error
CallLLM(cl, up, h) ==
    HandlerResult(cl, IF up.llm THEN None ELSE "upstream", h)

\* OllamaMCPClient.handle_mcp_message
handle_mcp_message(cl, message, up) ==
    IF message.method = "initialize"
    THEN LET r == Initialize(cl, up.tags, up.probe)
         IN  HandlerResult(r.client, IF r.raised THEN "upstream" ELSE None, "initialize")
    ELSE IF message.method = "completion" THEN CallLLM(cl, up, "send_prompt")
    ELSE IF message.method = "chat" THEN CallLLM(cl, up, "chat")
    ELSE HandlerResult(cl, "unknown_method", None)

\* MouseCapableOllamaClient.handle_enhanced_mcp_message
handle_enhanced_mcp_message(cl, message, up) ==
    IF message.method = "enhanced_completion"
    THEN CallLLM(cl, up, "send_enhanced_prompt")
    ELSE handle_mcp_message(cl, message, up)

\* The handler each method names (spec 3, "MCP Message")
HandlerOf(method) ==
    CASE method = "initialize"          -> "initialize"
      [] method = "completion"          -> "send_prompt"
      [] method = "chat"                -> "chat"
      [] method = "enhanced_completion" -> "send_enhanced_prompt"
      [] OTHER                          -> None

\* Would the upstream calls of the method's handler succeed
UpstreamOk(method, up) ==
    IF method = "initialize" THEN up.tags.status = 200 ELSE up.llm

\* POST /mcp: client.handle_mcp_message(message) for both client classes
McpRouteHandler(cl, message, up) == handle_mcp_message(cl, message, up)

\* POST /enhanced: send_enhanced_prompt on the augmented client, else send_prompt
EnhancedRouteHandler(cl, up) ==
    IF cl.cls = "MouseCapableOllamaClient"
    THEN CallLLM(cl, up, "send_enhanced_prompt")
    ELSE CallLLM(cl, up, "send_prompt")

\* GET /ws: hasattr(client, 'handle_enhanced_mcp_message') picks the handler
WsRouteHandler(cl, message, up) ==
    IF cl.cls = "MouseCapableOllamaClient"
    THEN handle_enhanced_mcp_message(cl, message, up)
    ELSE handle_mcp_message(cl, message, up)

\* client_class(*args): a fresh client built from the server's configuration
ClientFor(srv) ==
    IF srv.enable_mouse THEN MouseCapableOllamaClient(srv.model)
                        ELSE OllamaMCPClient(srv.model)

StoreClientShared(cs, c, cl) ==
    [d \in DOMAIN cs |->
        IF d = c THEN cl
        ELSE IF cs[d].cls = "none" THEN cs[d]
        ELSE [cs[d] EXCEPT !.model = cl.model,
                           !.mouse_tools_enabled = cl.mouse_tools_enabled]]

\* `async with client_class(...) as client`: the object lives in the scope of
\* the one handler invocation that created it
StoreClient(cs, c, cl) == [cs EXCEPT ![c] = cl]

\* `data.get('id') if 'data' in locals() else None` of the per-frame handler
ErrorReplyId(d) ==
    IF d.json = "unbound" THEN [raised |-> FALSE, id |-> None]
    ELSE IF d.json = "nonobject" THEN [raised |-> TRUE, id |-> None]
    ELSE [raised |-> FALSE, id |-> d.id]

NoReply   == [kind |-> "none", handler |-> None, id |-> "absent", status |-> 0]
NoPending == [raised |-> FALSE, err |-> None, handler |-> None, upOk |-> FALSE]
ErrorResponse(status) ==
    [kind |-> "error", handler |-> None, id |-> "absent", status |-> status]
ResultResponse(h) ==
    [kind |-> "result", handler |-> h, id |-> "absent", status |-> 200]
ErrorFrame(id) ==
    [kind |-> "error", handler |-> None, id |-> id, status |-> 0]
Pending(r, ok) ==
    [raised |-> r.raised, err |-> r.err, handler |-> r.handler, upOk |-> ok]

-----------------------------------------------------------------------------
(* Gateway: state after construction *)

GatewayInit ==
    /\ server \in [model : {ConfiguredModel}, enable_mouse : BOOLEAN]
    /\ route      = [c \in Conns |-> "none"]
    /\ pc         = [c \in Conns |-> "idle"]
    /\ client     = [c \in Conns |-> NoClient]
    /\ frame      = [c \in Conns |-> Unbound]
    /\ data       = [c \in Conns |-> Unbound]
    /\ pending    = [c \in Conns |-> NoPending]
    /\ reply      = [c \in Conns |-> NoReply]
    /\ nread      = [c \in Conns |-> 0]
    /\ nresolved  = [c \in Conns |-> 0]
    /\ resolution = [c \in Conns |-> "none"]
    /\ wsClosed   = [c \in Conns |-> FALSE]
    /\ exitPath   = [c \in Conns |-> "none"]

\* The gateway when another specification runs: no request ever arrives
GatewayIdle ==
    /\ server = [model |-> ConfiguredModel, enable_mouse |-> TRUE]
    /\ route      = [c \in Conns |-> "none"]
    /\ pc         = [c \in Conns |-> "idle"]
    /\ client     = [c \in Conns |-> NoClient]
    /\ frame      = [c \in Conns |-> Unbound]
    /\ data       = [c \in Conns |-> Unbound]
    /\ pending    = [c \in Conns |-> NoPending]
    /\ reply      = [c \in Conns |-> NoReply]
    /\ nread      = [c \in Conns |-> 0]
    /\ nresolved  = [c \in Conns |-> 0]
    /\ resolution = [c \in Conns |-> "none"]
    /\ wsClosed   = [c \in Conns |-> FALSE]
    /\ exitPath   = [c \in Conns |-> "none"]

\* The owning scope of connection c ends: __aexit__ runs, the handler returns
ScopeExit(c, cl, exc, path) ==
    /\ client'   = StoreClient(client, c, aexit(cl, exc))
    /\ pc'       = [pc EXCEPT ![c] = "done"]
    /\ exitPath' = [exitPath EXCEPT ![c] = path]

-----------------------------------------------------------------------------
(* Gateway: POST /mcp and POST /enhanced *)

\* handle_mcp_request / handle_enhanced_request up to the `async with`
HttpAccept(c, B) ==
    /\ pc[c] = "idle"
    /\ UNCHANGED <<clVars, toolVars, parseVars, ocrVars, apiVars, pureVars>>
    /\ \E rt \in {"mcp", "enhanced"} :
       \E body \in (IF rt = "mcp" THEN B ELSE PromptBodies) :
         /\ route' = [route EXCEPT ![c] = rt]
         /\ frame' = [frame EXCEPT ![c] = body]
         /\ IF body.json = "bad"
            THEN \* request.json() raises: `except Exception` answers 400
                 /\ reply'    = [reply EXCEPT ![c] = ErrorResponse(400)]
                 /\ pc'       = [pc EXCEPT ![c] = "done"]
                 /\ exitPath' = [exitPath EXCEPT ![c] = "no_client"]
                 /\ UNCHANGED <<client, data>>
            ELSE IF body.json = "nonobject"
            THEN \* data.get raises AttributeError before any client exists
                 /\ data'     = [data EXCEPT ![c] = body]
                 /\ reply'    = [reply EXCEPT ![c] = ErrorResponse(400)]
                 /\ pc'       = [pc EXCEPT ![c] = "done"]
                 /\ exitPath' = [exitPath EXCEPT ![c] = "no_client"]
                 /\ UNCHANGED client
            ELSE /\ data'   = [data EXCEPT ![c] = body]
                 /\ client' = StoreClient(client, c, aenter(ClientFor(server)))
                 /\ pc'     = [pc EXCEPT ![c] =
                                 IF server.enable_mouse THEN "http_init"
                                                        ELSE "http_dispatch"]
                 /\ UNCHANGED <<reply, exitPath>>
    /\ UNCHANGED <<server, pending, nread, nresolved, resolution, wsClosed>>

\* `await client.initialize()` of the mouse-enabled branch
HttpInitialize(c) ==
    /\ pc[c] = "http_init"
    /\ UNCHANGED <<clVars, toolVars, parseVars, ocrVars, apiVars, pureVars>>
    /\ \E tags \in TagsOutcomes, probe \in ProbeOutcomes :
         LET r == Initialize(client[c], tags, probe)
         IN  IF r.raised
             THEN /\ ScopeExit(c, r.client, TRUE, "init_failure")
                  /\ reply' = [reply EXCEPT ![c] = ErrorResponse(400)]
             ELSE /\ client' = StoreClient(client, c, r.client)
                  /\ pc'     = [pc EXCEPT ![c] = "http_dispatch"]
                  /\ UNCHANGED <<reply, exitPath>>
    /\ UNCHANGED <<server, route, frame, data, pending, nread, nresolved,
                   resolution, wsClosed>>

\* the handler call, the JSON response and the end of the `async with`
HttpDispatch(c) ==
    /\ pc[c] = "http_dispatch"
    /\ UNCHANGED <<clVars, toolVars, parseVars, ocrVars, apiVars, pureVars>>
    /\ \E up \in Ups :
         LET r == IF route[c] = "mcp"
                  THEN McpRouteHandler(client[c], frame[c], up)
                  ELSE EnhancedRouteHandler(client[c], up)
             m == IF route[c] = "mcp" THEN frame[c].method ELSE "completion"
         IN  /\ pending' = [pending EXCEPT ![c] = Pending(r, UpstreamOk(m, up))]
             /\ reply'   = [reply EXCEPT ![c] =
                              IF r.raised THEN ErrorResponse(400)
                                          ELSE ResultResponse(r.handler)]
             /\ ScopeExit(c, r.client, r.raised,
                          IF r.raised THEN r.err ELSE "return")
    /\ UNCHANGED <<server, route, frame, data, nread, nresolved,
                   resolution, wsClosed>>

-----------------------------------------------------------------------------
(* Gateway: GET /ws *)

\* ws.prepare and the entry of `async with client_class(*args) as client`
WsAccept(c) ==
    /\ pc[c] = "idle"
    /\ UNCHANGED <<clVars, toolVars, parseVars, ocrVars, apiVars, pureVars>>
    /\ route'  = [route EXCEPT ![c] = "ws"]
    /\ client' = StoreClient(client, c, aenter(ClientFor(server)))
    /\ pc'     = [pc EXCEPT ![c] = "ws_init"]
    /\ UNCHANGED <<server, frame, data, pending, reply, nread, nresolved,
                   resolution, wsClosed, exitPath>>

\* `await client.initialize()` and the {"type": "initialized"} frame; a raise
\* lands in the outer `except`, which is inside the `async with`
WsInitialize(c) ==
    /\ pc[c] = "ws_init"
    /\ UNCHANGED <<clVars, toolVars, parseVars, ocrVars, apiVars, pureVars>>
    /\ \E tags \in TagsOutcomes, probe \in ProbeOutcomes, sendOk \in BOOLEAN :
         LET r == Initialize(client[c], tags, probe)
         IN  IF r.raised
             THEN /\ reply' = [reply EXCEPT ![c] =
                                 IF ~wsClosed[c] /\ sendOk
                                 THEN ErrorFrame("absent") ELSE @]
                  /\ ScopeExit(c, r.client, FALSE, "init_failure")
             ELSE IF wsClosed[c] \/ ~sendOk
             THEN /\ ScopeExit(c, r.client, FALSE, "send_failure")
                  /\ UNCHANGED reply
             ELSE /\ client' = StoreClient(client, c, r.client)
                  /\ reply'  = [reply EXCEPT ![c] =
                                  [kind |-> "initialized", handler |-> None,
                                   id |-> "absent", status |-> 0]]
                  /\ pc'     = [pc EXCEPT ![c] = "ws_read"]
                  /\ UNCHANGED exitPath
    /\ UNCHANGED <<server, route, frame, data, pending, nread, nresolved,
                   resolution, wsClosed>>

CanReadWhileReplying(c) == pc[c] \in {"ws_read", "ws_reply"}

\* `async for msg in ws`: the next message is awaited only at the loop head
CanRead(c) == pc[c] = "ws_read"

\* one iteration head of `async for msg in ws`
WsRead(c, B) ==
    /\ CanRead(c)
    /\ UNCHANGED <<clVars, toolVars, parseVars, ocrVars, apiVars, pureVars>>
    /\ IF wsClosed[c]
       THEN /\ ScopeExit(c, client[c], FALSE, "socket_closed")
            /\ UNCHANGED <<frame, nread, resolution>>
       ELSE \/ /\ nread[c] < MaxFrames
               /\ \E body \in B : frame' = [frame EXCEPT ![c] = body]
               /\ nread'      = [nread EXCEPT ![c] = @ + 1]
               /\ resolution' = [resolution EXCEPT ![c] = "none"]
               /\ pc'         = [pc EXCEPT ![c] = "ws_dispatch"]
               /\ UNCHANGED <<client, exitPath>>
            \/ /\ \E t \in {"error_frame", "close_frame"} :
                    ScopeExit(c, client[c], FALSE, t)
               /\ UNCHANGED <<frame, nread, resolution>>
    /\ UNCHANGED <<server, route, data, pending, reply, nresolved, wsClosed>>

\* json.loads, MCPMessage(...) and the handler call of one text frame
WsDispatch(c) ==
    /\ pc[c] = "ws_dispatch"
    /\ UNCHANGED <<clVars, toolVars, parseVars, ocrVars, apiVars, pureVars>>
    /\ IF frame[c].json = "bad"
       THEN /\ pending' = [pending EXCEPT ![c] =
                             [raised |-> TRUE, err |-> "decode",
                              handler |-> None, upOk |-> FALSE]]
            /\ UNCHANGED <<data, client>>
       ELSE IF frame[c].json = "nonobject"
       THEN /\ data'    = [data EXCEPT ![c] = frame[c]]
            /\ pending' = [pending EXCEPT ![c] =
                             [raised |-> TRUE, err |-> "not_object",
                              handler |-> None, upOk |-> FALSE]]
            /\ UNCHANGED client
       ELSE /\ data' = [data EXCEPT ![c] = frame[c]]
            /\ \E up \in Ups :
                 LET r == WsRouteHandler(client[c], frame[c], up)
                 IN  /\ client'  = StoreClient(client, c, r.client)
                     /\ pending' = [pending EXCEPT ![c] =
                                      Pending(r, UpstreamOk(frame[c].method, up))]
    /\ pc' = [pc EXCEPT ![c] = "ws_reply"]
    /\ UNCHANGED <<server, route, frame, reply, nread, nresolved, resolution,
                   wsClosed, exitPath>>

\* the send of the result, or the inner `except` and its error reply
WsReply(c) ==
    /\ pc[c] = "ws_reply"
    /\ UNCHANGED <<clVars, toolVars, parseVars, ocrVars, apiVars, pureVars>>
    /\ nresolved' = [nresolved EXCEPT ![c] = @ + 1]
    /\ \E sendOk \in BOOLEAN :
         LET p == pending[c]
             e == ErrorReplyId(data[c])
         IN  IF wsClosed[c]
             THEN /\ resolution' = [resolution EXCEPT ![c] = "skipped"]
                  /\ pc'         = [pc EXCEPT ![c] = "ws_read"]
                  /\ UNCHANGED <<reply, client, exitPath>>
             ELSE IF ~sendOk /\ ~(p.raised /\ e.raised)
             THEN \* send_str raises on a lost transport; so does every retry
                  /\ resolution' = [resolution EXCEPT ![c] = "failed"]
                  /\ ScopeExit(c, client[c], FALSE, "send_failure")
                  /\ UNCHANGED reply
             ELSE IF ~p.raised
             THEN /\ reply'      = [reply EXCEPT ![c] = ResultResponse(p.handler)]
                  /\ resolution' = [resolution EXCEPT ![c] = "sent"]
                  /\ pc'         = [pc EXCEPT ![c] = "ws_read"]
                  /\ UNCHANGED <<client, exitPath>>
             ELSE IF e.raised
             THEN \* the error escapes to the outer `except`: the loop is over
                  /\ reply'      = [reply EXCEPT ![c] =
                                      IF sendOk THEN ErrorFrame("absent") ELSE @]
                  /\ resolution' = [resolution EXCEPT ![c] = "aborted"]
                  /\ ScopeExit(c, client[c], FALSE, "exception")
             ELSE /\ reply'      = [reply EXCEPT ![c] = ErrorFrame(e.id)]
                  /\ resolution' = [resolution EXCEPT ![c] = "sent"]
                  /\ pc'         = [pc EXCEPT ![c] = "ws_read"]
                  /\ UNCHANGED <<client, exitPath>>
    /\ UNCHANGED <<server, route, frame, data, pending, nread, wsClosed>>

\* the socket is closed under the handler (shutdown, heartbeat timeout)
SocketCloses(c) ==
    /\ route[c] = "ws"
    /\ UNCHANGED <<clVars, toolVars, parseVars, ocrVars, apiVars, pureVars>>
    /\ pc[c] # "done"
    /\ ~wsClosed[c]
    /\ wsClosed' = [wsClosed EXCEPT ![c] = TRUE]
    /\ UNCHANGED <<server, route, pc, client, frame, data, pending, reply,
                   nread, nresolved, resolution, exitPath>>

\* The MCP bodies of the two-connection specification: the one method that
\* changes client state (POST /enhanced still brings the LLM calls)
FewBodies == { b \in ObjectBodies : b.method = "initialize" /\ b.id = None }

\* Requests arrive on the connections C with bodies drawn from B
GatewayNext(C, B) ==
    \E c \in C :
        \/ HttpAccept(c, B)
        \/ HttpInitialize(c)
        \/ HttpDispatch(c)
        \/ WsAccept(c)
        \/ WsInitialize(c)
        \/ WsRead(c, B)
        \/ WsDispatch(c)
        \/ WsReply(c)
        \/ SocketCloses(c)

-----------------------------------------------------------------------------
(* Augmented client: prompts, replies and action directives *)

\* A prompt is a token sequence
Prompts == { <<"click", "ok">> }

\* MouseCapableOllamaClient._add_mouse_context: the instruction block, then the prompt
_add_mouse_context(prompt) == <<"MOUSE_CONTEXT">> \o prompt

\* _execute_single_action's url_map
url_map ==
    [ mouse_move               |-> "/mouse/move",
      mouse_click              |-> "/mouse/click",
      mouse_scroll             |-> "/mouse/scroll",
      mouse_drag               |-> "/mouse/drag",
      screen_capture           |-> "/screen/capture",
      screen_capture_at_cursor |-> "/screen/capture_at_cursor",
      screen_capture_with_ocr  |-> "/screen/capture_with_ocr",
      text_search              |-> "/text/search",
      text_type                |-> "/text/type",
      text_find_and_click      |-> "/text/find_and_click",
      text_ocr                 |-> "/text/ocr",
      image_search             |-> "/image/search",
      image_find_and_click     |-> "/image/find_and_click",
      mouse_position           |-> "/mouse/position",
      health                   |-> "/health" ]

\* the HTTP verb _execute_single_action uses for a known action
VerbOf(action) ==
    IF action \in {"screen_capture", "mouse_position", "health",
                   "screen_capture_at_cursor"} THEN "GET"
    ELSE IF action \in {"image_search", "image_find_and_click"} THEN "UPLOAD"
    ELSE "POST"

\* The bracket directives of a reply, as re.findall returns them in text
\* order: `name(args)` or a malformed body
Directives ==
    { [name |-> "mouse_position", form |-> "call",      params |-> "()"],
      [name |-> "mouse_click",    form |-> "call",      params |-> "(left, 10, 20)"],
      [name |-> "image_search",   form |-> "call",      params |-> "(image_path=a.png)"],
      [name |-> "fly_away",       form |-> "call",      params |-> "()"],
      [name |-> "mouse_move",     form |-> "malformed", params |-> "("] }

\* LLM reply texts: up to MaxActions directives
Replies == UNION { [1..n -> Directives] : n \in 0..MaxActions }

RECURSIVE ParseFrom(_, _)
ParseFrom(matches, i) ==
    IF i > Len(matches) THEN <<>>
    ELSE LET m == matches[i]
         IN  (IF m.form = "call"
              THEN << [action |-> m.name, params |-> m.params] >>
              ELSE <<>>) \o ParseFrom(matches, i + 1)

\* _parse_mouse_actions: one action per well-formed directive, in text order
_parse_mouse_actions(matches) == ParseFrom(matches, 1)

\* the JSON body of POST /api/generate, and send_prompt's `del result['context']`
LlmJson(replyText) == [response |-> replyText, done |-> TRUE, context |-> "tokens"]
StripContext(j) == [k \in DOMAIN j \ {"context"} |-> j[k]]

\* OllamaMCPClient.send_prompt
send_prompt(cl, prompt, llmOk, replyText) ==
    [sent   |-> [model |-> cl.model, prompt |-> prompt],
     raised |-> ~llmOk,
     result |-> IF llmOk THEN StripContext(LlmJson(replyText)) ELSE NoResult]

AutomationRequestedIgnoringFlag(enable_mouse_actions, cl) == enable_mouse_actions

\* `if enable_mouse_actions and self.mouse_tools_enabled` of send_enhanced_prompt
AutomationRequested(enable_mouse_actions, cl) ==
    enable_mouse_actions /\ cl.mouse_tools_enabled

ActionSuccess(a, result) ==
    [action |-> a.action, params |-> a.params, result |-> result, success |-> TRUE]
ActionFailure(a, error) ==
    [action |-> a.action, params |-> a.params, error |-> error, success |-> FALSE]

NextActionStopAtFailure(idx, entry, n) ==
    IF entry.success THEN idx + 1 ELSE n + 1

\* the `for action in actions` loop of _execute_mouse_actions: the next action
\* follows whatever the outcome of this one
NextAction(idx, entry, n) == idx + 1

NoCall ==
    [op |-> "none", prompt |-> <<>>, enable |-> FALSE, flag |-> FALSE,
     afterProbeFail |-> FALSE, sent |-> <<>>, llmOk |-> FALSE, reply |-> <<>>,
     actions |-> <<>>, results |-> <<>>, requests |-> <<>>, inflight |-> 0,
     idx |-> 0, raised |-> FALSE, done |-> FALSE, result |-> NoResult,
     tagsOk |-> FALSE, probe |-> "none", models |-> <<>>, modelBefore |-> None]

NoInitLog == [any |-> FALSE, last |-> TRUE, all |-> TRUE]

\* One client inside its `async with`
ClientInit ==
    /\ mc      = aenter(MouseCapableOllamaClient(ConfiguredModel))
    /\ mcPc    = "ready"
    /\ call    = NoCall
    /\ initLog = NoInitLog

\* The client when another specification runs
ClientIdle ==
    /\ mc      = NoClient
    /\ mcPc    = "idle"
    /\ call    = NoCall
    /\ initLog = NoInitLog

-----------------------------------------------------------------------------
(* Augmented client: operations *)

\* client.initialize() on the open client (first call or re-initialization)
ClInitialize ==
    /\ mcPc = "ready"
    /\ UNCHANGED <<gwVars, toolVars, parseVars, ocrVars, apiVars, pureVars>>
    /\ \E tags \in ClientTagsOutcomes, probe \in ProbeOutcomes :
         LET r == Initialize(mc, tags, probe)
         IN  /\ mc'   = r.client
             /\ call' = [NoCall EXCEPT
                           !.op = "initialize",
                           !.models = tags.models,
                           !.modelBefore = mc.model,
                           !.flag = mc.mouse_tools_enabled,
                           !.afterProbeFail = ~initLog.all,
                           !.raised = r.raised,
                           !.done = TRUE,
                           !.result = r.result,
                           !.tagsOk = (tags.status = 200),
                           !.probe = probe]
             /\ initLog' = IF r.raised THEN initLog
                           ELSE [any  |-> TRUE,
                                 last |-> r.result.mouse_api_available,
                                 all  |-> initLog.all /\ r.result.mouse_api_available]
    /\ UNCHANGED mcPc

\* client.send_prompt(prompt)
ClSendPrompt ==
    /\ mcPc = "ready"
    /\ UNCHANGED <<gwVars, toolVars, parseVars, ocrVars, apiVars, pureVars>>
    /\ \E prompt \in Prompts, llmOk \in BOOLEAN, replyText \in Replies :
         /\ ~llmOk => replyText = <<>>
         /\ LET r == send_prompt(mc, prompt, llmOk, replyText)
            IN  call' = [NoCall EXCEPT
                           !.op = "send_prompt",
                           !.prompt = prompt,
                           !.flag = mc.mouse_tools_enabled,
                           !.afterProbeFail = ~initLog.all,
                           !.sent = r.sent.prompt,
                           !.llmOk = llmOk,
                           !.reply = replyText,
                           !.raised = r.raised,
                           !.done = TRUE,
                           !.result = r.result]
    /\ UNCHANGED <<mc, mcPc, initLog>>

\* client.send_enhanced_prompt(prompt, enable_mouse_actions) up to the first
\* await inside _execute_mouse_actions
ClSendEnhancedPrompt ==
    /\ mcPc = "ready"
    /\ UNCHANGED <<gwVars, toolVars, parseVars, ocrVars, apiVars, pureVars>>
    /\ \E prompt \in Prompts, enable \in BOOLEAN, llmOk \in BOOLEAN,
          replyText \in Replies :
         /\ ~llmOk => replyText = <<>>
         /\ LET on == AutomationRequested(enable, mc)
                enhanced_prompt == IF on THEN _add_mouse_context(prompt) ELSE prompt
                r == send_prompt(mc, enhanced_prompt, llmOk, replyText)
                actions == IF ~r.raised /\ on
                           THEN _parse_mouse_actions(r.result.response) ELSE <<>>
                c0 == [NoCall EXCEPT
                           !.op = "send_enhanced_prompt",
                           !.prompt = prompt,
                           !.enable = enable,
                           !.flag = mc.mouse_tools_enabled,
                           !.afterProbeFail = ~initLog.all,
                           !.sent = r.sent.prompt,
                           !.llmOk = llmOk,
                           !.reply = replyText,
                           !.raised = r.raised,
                           !.result = r.result]
            IN  IF actions # <<>>
                THEN /\ call' = [c0 EXCEPT !.actions = actions, !.idx = 1]
                     /\ mcPc' = "exec"
                ELSE /\ call' = [c0 EXCEPT !.done = TRUE]
                     /\ mcPc' = "ready"
    /\ UNCHANGED <<mc, initLog>>

\* results.append(...) of _execute_mouse_actions, and, after the last action,
\* `response['mouse_actions_executed'] = action_results; return response`
RecordOutcome(entry) ==
    LET results == Append(call.results, entry)
        next    == NextAction(call.idx, entry, Len(call.actions))
    IN  IF next > Len(call.actions)
        THEN /\ call' = [call EXCEPT
                           !.results = results, !.idx = next, !.inflight = 0,
                           !.done = TRUE,
                           !.result = ("mouse_actions_executed" :> results) @@ @]
             /\ mcPc' = "ready"
        ELSE /\ call' = [call EXCEPT
                           !.results = results, !.idx = next, !.inflight = 0]
             /\ mcPc' = "exec"

\* _execute_single_action up to its HTTP request: an unknown action and a
\* missing upload file raise before anything is sent
ClExecStart ==
    /\ mcPc = "exec"
    /\ UNCHANGED <<gwVars, toolVars, parseVars, ocrVars, apiVars, pureVars>>
    /\ call.inflight = 0
    /\ call.idx <= Len(call.actions)
    /\ LET a == call.actions[call.idx]
       IN  IF a.action \notin DOMAIN url_map
           THEN RecordOutcome(ActionFailure(a, "Unknown action"))
           ELSE \/ /\ VerbOf(a.action) = "UPLOAD"
                   /\ RecordOutcome(ActionFailure(a, "Image file not found"))
                \/ /\ call' = [call EXCEPT
                                 !.requests = Append(@, [index |-> call.idx,
                                                        verb  |-> VerbOf(a.action),
                                                        url   |-> url_map[a.action]]),
                                 !.inflight = call.idx]
                   /\ UNCHANGED mcPc
    /\ UNCHANGED <<mc, initLog>>

\* the backend's answer to the request in flight: JSON, or raise_for_status
ClExecFinish ==
    /\ mcPc = "exec"
    /\ UNCHANGED <<gwVars, toolVars, parseVars, ocrVars, apiVars, pureVars>>
    /\ call.inflight # 0
    /\ LET a == call.actions[call.inflight]
       IN  \E ok \in BOOLEAN :
             RecordOutcome(IF ok THEN ActionSuccess(a, "json")
                                 ELSE ActionFailure(a, "HTTPStatusError"))
    /\ UNCHANGED <<mc, initLog>>

ClientNext ==
    \/ ClInitialize
    \/ ClSendPrompt
    \/ ClSendEnhancedPrompt
    \/ ClExecStart
    \/ ClExecFinish

-----------------------------------------------------------------------------
(* Automation tool server (mcp_mouse/server.py) *)

Calls == 1..MaxCalls

\* Config: the registry loaded at start, and its defaultServer
ConfigServers == <<"s1", "s2">>
DefaultServer == "s1"
ServerArgs    == {None, "s1", "s2", "zz"}

\* the tools modelled: the health listing, an ordinary call, an OCR-bearing call
Tools == {"list_servers", "mouse_position", "text_ocr"}

\* Config.get: [raised, name]
ConfigGet(name) ==
    LET n == IF name = None THEN DefaultServer ELSE name
    IN  [raised |-> ~InSeq(n, ConfigServers), name |-> n]

\* MouseApiClient.__init__: two httpx.AsyncClient
MouseApiClient(owner, name) ==
    [owner |-> owner, server |-> name, client |-> "open", ocr_client |-> "open"]

\* MouseApiClient.aclose
aclose(cli) == [cli EXCEPT !.client = "closed", !.ocr_client = "closed"]

IsOpen(cli) == cli.client = "open" \/ cli.ocr_client = "open"

NoToolCall ==
    [tool |-> "none", pc |-> "idle", names |-> <<>>, cli |-> 0,
     raised |-> FALSE, servers |-> <<>>]

ToolsInit ==
    /\ tcall      = [k \in Calls |-> NoToolCall]
    /\ apiClients = <<>>

\* The tool server when another specification runs
ToolsIdle == ToolsInit

\* a tool function up to its first await
ToolBegin(k) ==
    /\ tcall[k].pc = "idle"
    /\ UNCHANGED <<gwVars, clVars, parseVars, ocrVars, apiVars, pureVars>>
    /\ \E tool \in Tools, srv \in ServerArgs :
         IF tool = "list_servers"
         THEN /\ tcall' = [tcall EXCEPT ![k] =
                             [NoToolCall EXCEPT
                                !.tool = tool, !.pc = "probing",
                                !.names = IF srv # None THEN <<srv>>
                                                        ELSE ConfigServers]]
              /\ UNCHANGED apiClients
         ELSE LET cfg == ConfigGet(srv)
              IN  IF cfg.raised
                  THEN \* _client_for raises "Unknown server" before the try
                       /\ tcall' = [tcall EXCEPT ![k] =
                                      [NoToolCall EXCEPT !.tool = tool,
                                          !.pc = "done", !.raised = TRUE]]
                       /\ UNCHANGED apiClients
                  ELSE /\ apiClients' = Append(apiClients, MouseApiClient(k, cfg.name))
                       /\ tcall' = [tcall EXCEPT ![k] =
                                      [NoToolCall EXCEPT !.tool = tool,
                                          !.pc = "calling",
                                          !.cli = Len(apiClients) + 1]]

\* `try: return await cli.<tool>(...)  finally: await cli.aclose()`
ToolFinish(k) ==
    /\ tcall[k].pc = "calling"
    /\ UNCHANGED <<gwVars, clVars, parseVars, ocrVars, apiVars, pureVars>>
    /\ \E ok \in BOOLEAN :
         tcall' = [tcall EXCEPT ![k].pc = "done", ![k].raised = ~ok]
    /\ apiClients' = [apiClients EXCEPT ![tcall[k].cli] = aclose(@)]

\* list_servers: what is left to do after one name of the loop
AfterName(t, entry) ==
    LET rest == Tail(t.names)
    IN  [t EXCEPT !.names = rest, !.cli = 0,
                  !.servers = Append(@, entry),
                  !.pc = IF rest = <<>> THEN "done" ELSE "probing"]

\* list_servers: `cli = _client_for(name)` and the health request of one name
ListProbeStart(k) ==
    /\ tcall[k].pc = "probing"
    /\ UNCHANGED <<gwVars, clVars, parseVars, ocrVars, apiVars, pureVars>>
    /\ LET name == Head(tcall[k].names)
           cfg  == ConfigGet(name)
       IN  IF cfg.raised
           THEN \* "Unknown server" is caught by the loop's except
                /\ tcall' = [tcall EXCEPT ![k] =
                               AfterName(@, [name |-> name, ok |-> FALSE])]
                /\ UNCHANGED apiClients
           ELSE /\ apiClients' = Append(apiClients, MouseApiClient(k, cfg.name))
                /\ tcall' = [tcall EXCEPT ![k].pc = "probe_wait",
                                          ![k].cli = Len(apiClients) + 1]

\* list_servers: `health = await cli.health(); await cli.aclose()` inside the
\* try: a raise of health() skips aclose()
ListProbeFinish(k) ==
    /\ tcall[k].pc = "probe_wait"
    /\ UNCHANGED <<gwVars, clVars, parseVars, ocrVars, apiVars, pureVars>>
    /\ LET name == Head(tcall[k].names)
       IN  \E ok \in BOOLEAN :
             /\ apiClients' = IF ok
                              THEN [apiClients EXCEPT ![tcall[k].cli] = aclose(@)]
                              ELSE apiClients
             /\ tcall' = [tcall EXCEPT ![k] =
                            AfterName(@, [name |-> name, ok |-> ok])]

ToolsNext ==
    \E k \in Calls :
        \/ ToolBegin(k)
        \/ ToolFinish(k)
        \/ ListProbeStart(k)
        \/ ListProbeFinish(k)

-----------------------------------------------------------------------------
(* Directive parsing on the characters of a reply                            *)
(* (mcp_client/mouse_integration.py, _parse_mouse_actions)                    *)
(*                                                                            *)
(* A text is a sequence of tokens: every punctuation character, blank, quote *)
(* and digit is a token of its own, and a maximal run of letters and          *)
(* underscores is one token.                                                  *)

Spaces    == {" "}                   \* what str.strip() removes
Quotes    == {"\"", "'"}             \* what str.strip('"\'') removes
DigitSeq  == <<"0", "1", "2", "3", "4", "5", "6", "7", "8", "9">>
Digits    == { DigitSeq[i] : i \in 1..10 }
DigitVal(d) == (CHOOSE i \in 1..10 : DigitSeq[i] = d) - 1

RECURSIVE LStrip(_, _)
LStrip(s, cs) ==
    IF s # <<>> /\ Head(s) \in cs THEN LStrip(Tail(s), cs) ELSE s

RECURSIVE RStrip(_, _)
RStrip(s, cs) ==
    IF s # <<>> /\ s[Len(s)] \in cs
    THEN RStrip(SubSeq(s, 1, Len(s) - 1), cs) ELSE s

\* str.strip(chars): every leading and every trailing character of the set
Strip(s, cs) == RStrip(LStrip(s, cs), cs)

\* `c in s` and s.index(c) (1-based)
Contains(s, c) == \E i \in 1..Len(s) : s[i] = c
IndexOf(s, c)  == CHOOSE i \in 1..Len(s) : s[i] = c /\ \A j \in 1..(i - 1) : s[j] # c

\* str.lower() on a token
Lower(tok) ==
    IF tok \in {"True", "TRUE"} THEN "true"
    ELSE IF tok \in {"False", "FALSE"} THEN "false"
    ELSE tok

\* Python values a parameter can take
IntVal(n)      == [t |-> "int",   n |-> n, e |-> 0, b |-> FALSE, s |-> <<>>]
FloatVal(n, e) == [t |-> "float", n |-> n, e |-> e, b |-> FALSE, s |-> <<>>]
BoolVal(b)     == [t |-> "bool",  n |-> 0, e |-> 0, b |-> b,     s |-> <<>>]
StrVal(s)      == [t |-> "str",   n |-> 0, e |-> 0, b |-> FALSE, s |-> s]

\* str.isdigit(): non-empty and every character a digit
IsDigit(s) == s # <<>> /\ \A i \in 1..Len(s) : s[i] \in Digits

\* value.replace('.', '')
RECURSIVE WithoutDots(_)
WithoutDots(s) ==
    IF s = <<>> THEN <<>>
    ELSE (IF Head(s) = "." THEN <<>> ELSE <<Head(s)>>) \o WithoutDots(Tail(s))

\* int(value) of a digit string
RECURSIVE IntOf(_)
IntOf(s) ==
    IF s = <<>> THEN 0 ELSE IntOf(SubSeq(s, 1, Len(s) - 1)) * 10 + DigitVal(s[Len(s)])

\* the number n / 10^e in lowest decimal form
RECURSIVE Normalised(_, _)
Normalised(n, e) ==
    IF e > 0 /\ n % 10 = 0 THEN Normalised(n \div 10, e - 1) ELSE FloatVal(n, e)

\* float(value) of a string of digits and dots: at most one dot parses
FloatRaises(s) == Len(s) - Len(WithoutDots(s)) > 1
FloatOf(s) ==
    IF Contains(s, ".")
    THEN Normalised(IntOf(WithoutDots(s)), Len(s) - IndexOf(s, "."))
    ELSE FloatVal(IntOf(s), 0)

\* "Convert to appropriate type": int, then float, then bool, else the string;
\* float() raises ValueError on a value such as 1.2.3
Coerce(value) ==
    IF IsDigit(value)
    THEN [raised |-> FALSE, val |-> IntVal(IntOf(value))]
    ELSE IF IsDigit(WithoutDots(value))
    THEN [raised |-> FloatRaises(value),
          val    |-> IF FloatRaises(value) THEN StrVal(value) ELSE FloatOf(value)]
    ELSE IF Len(value) = 1 /\ Lower(value[1]) \in {"true", "false"}
    THEN [raised |-> FALSE, val |-> BoolVal(Lower(value[1]) = "true")]
    ELSE [raised |-> FALSE, val |-> StrVal(value)]

\* The split of params_str on the commas outside parentheses; every part is
\* stripped, and the part after the last comma is kept only when non-blank
RECURSIVE SplitParams(_, _, _, _)
SplitParams(s, i, current_part, paren_count) ==
    IF i > Len(s)
    THEN IF Strip(current_part, Spaces) # <<>>
         THEN << Strip(current_part, Spaces) >> ELSE <<>>
    ELSE IF s[i] = "," /\ paren_count = 0
    THEN << Strip(current_part, Spaces) >> \o SplitParams(s, i + 1, <<>>, 0)
    ELSE SplitParams(s, i + 1, Append(current_part, s[i]),
                     paren_count + (IF s[i] = "(" THEN 1
                                    ELSE IF s[i] = ")" THEN -1 ELSE 0))

\* param.split('=', 1)
KeyPart(param)   == SubSeq(param, 1, IndexOf(param, "=") - 1)
ValuePart(param) == SubSeq(param, IndexOf(param, "=") + 1, Len(param))

NoKey == << "<continue>" >>

PositionalKeyClickLast(action_name, i) ==
    IF action_name = <<"mouse_move">>
    THEN (IF i = 0 THEN <<"x">> ELSE IF i = 1 THEN <<"y">>
          ELSE IF i = 2 THEN <<"duration">> ELSE NoKey)
    ELSE IF action_name = <<"mouse_click">>
    THEN (IF i = 0 THEN <<"x">> ELSE IF i = 1 THEN <<"y">>
          ELSE IF i = 2 THEN <<"button">> ELSE NoKey)
    ELSE <<"param_", DigitSeq[i + 1]>>

\* the name a bare argument at index i is stored under
PositionalKey(action_name, i) ==
    IF action_name = <<"mouse_move">>
    THEN (IF i = 0 THEN <<"x">> ELSE IF i = 1 THEN <<"y">>
          ELSE IF i = 2 THEN <<"duration">> ELSE NoKey)
    ELSE IF action_name = <<"mouse_click">>
    THEN (IF i = 0 THEN <<"button">> ELSE IF i = 1 THEN <<"x">>
          ELSE IF i = 2 THEN <<"y">> ELSE NoKey)
    ELSE <<"param_", DigitSeq[i + 1]>>

IsNamed(param) == Contains(param, "=")

\* key and value of the parameter at index i, before the conversion
ParamKey(action_name, param, i) ==
    IF IsNamed(param) THEN Strip(KeyPart(param), Spaces)
    ELSE PositionalKey(action_name, i)
ParamValue(param) ==
    IF IsNamed(param) THEN Strip(Strip(ValuePart(param), Spaces), Quotes)
    ELSE Strip(Strip(param, Spaces), Quotes)

EmptyParams == [k \in {} |-> StrVal(<<>>)]

\* `for i, param in enumerate(param_parts)`: params after the parts from index i
RECURSIVE ParseParams(_, _, _, _)
ParseParams(action_name, param_parts, i, params) ==
    IF i >= Len(param_parts) THEN [raised |-> FALSE, params |-> params]
    ELSE LET param == param_parts[i + 1]
             key   == ParamKey(action_name, param, i)
             c     == Coerce(ParamValue(param))
         IN  IF key = NoKey /\ ~IsNamed(param)
             THEN ParseParams(action_name, param_parts, i + 1, params)
             ELSE IF c.raised THEN [raised |-> TRUE, params |-> params]
             ELSE ParseParams(action_name, param_parts, i + 1,
                              (key :> c.val) @@ params)

NoAction == [action |-> <<>>, params |-> EmptyParams]

ActionName(match) == Strip(SubSeq(match, 1, IndexOf(match, "(") - 1), Spaces)
ParamsStr(match)  == SubSeq(match, IndexOf(match, "(") + 1, Len(match) - 1)
ParamParts(match) ==
    IF Strip(ParamsStr(match), Spaces) # <<>>
    THEN SplitParams(ParamsStr(match), 1, <<>>, 0) ELSE <<>>

\* `'(' in match and match.endswith(')')`
IsCall(match) == Contains(match, "(") /\ match[Len(match)] = ")"

\* the body of the try: what one match appends, or that it raised
ParseMatch(match) ==
    IF IsCall(match)
    THEN LET r == ParseParams(ActionName(match), ParamParts(match), 0, EmptyParams)
         IN  [raised   |-> r.raised,
              appended |-> ~r.raised,
              action   |-> IF r.raised THEN NoAction
                           ELSE [action |-> ActionName(match), params |-> r.params]]
    ELSE [raised |-> FALSE, appended |-> FALSE, action |-> NoAction]

TryParseMatchUncaught(match) == ParseMatch(match)

\* try / except Exception around one match: the error is logged, nothing raised
TryParseMatch(match) ==
    LET r == ParseMatch(match)
    IN  IF r.raised THEN [raised |-> FALSE, appended |-> FALSE, action |-> NoAction]
        ELSE r

\* `for match in matches`: an exception that leaves an iteration ends the call
RECURSIVE ParseMatches(_, _, _)
ParseMatches(matches, i, actions) ==
    IF i > Len(matches) THEN [raised |-> FALSE, actions |-> actions]
    ELSE LET r == TryParseMatch(matches[i])
         IN  IF r.raised THEN [raised |-> TRUE, actions |-> <<>>]
             ELSE ParseMatches(matches, i + 1,
                               IF r.appended THEN Append(actions, r.action)
                               ELSE actions)

\* _parse_mouse_actions on the matches re.findall returns, in text order
ParseMouseActions(matches) == ParseMatches(matches, 1, <<>>)

\* ---- inputs ----

ActionNames == { <<"mouse_move">>, <<"mouse_click">>, <<"text_type">> }

\* argument texts as they stand between the commas
ArgTexts ==
    { <<"1", "0", "0">>,                                    \* 100
      <<" ", "2", "0", "0">>,                               \*  200
      <<" ", "1", ".", "0">>,                               \*  1.0
      <<"\"", "left", "\"">>,                               \* "left"
      <<"button", "=", "\"", "left", "\"">>,                \* button="left"
      <<" ", "x", "=", "5", "0">>,                          \*  x=50
      <<" ", "y", " ", "=", " ", "6", "0", " ">>,           \*  y = 60
      <<"text", "=", "\"", "say", " ", "'", "hi", "'", "\"">>,   \* text="say 'hi'"
      <<"1", ".", "2", ".", "3">>,                          \* 1.2.3
      <<"True">> }

RECURSIVE Join(_)
Join(args) ==
    IF args = <<>> THEN <<>>
    ELSE IF Len(args) = 1 THEN args[1]
    ELSE args[1] \o <<",">> \o Join(Tail(args))

\* the text `name(arg, ...)` of a directive
CallText(name, args) == name \o <<"(">> \o Join(args) \o <<")">>

ArgLists  == UNION { [1..n -> ArgTexts] : n \in 0..MaxArgs }
CallTexts == { CallText(name, args) : name \in ActionNames, args \in ArgLists }

\* directive bodies the parser accepts, and bodies it has to skip
WellFormedMatches ==
    { <<"mouse_position", "(", ")">>,
      <<"mouse_move", "(", "1", "0", ",", " ", "2", "0", ")">>,
      <<"image_search", "(", "image_path", "=", "a", ".", "png", ")">> }
MalformedMatches ==
    { <<"mouse_move", "(">>,
      <<"mouse_move", "(", "1", ".", "2", ".", "3", ")">>,
      <<"click", " ", "here">> }

Responses ==
    { <<m>> : m \in CallTexts }
        \cup UNION { [1..n -> WellFormedMatches \cup MalformedMatches] :
                        n \in 0..MaxMatches }

NoParse == [raised |-> FALSE, actions |-> <<>>]

ParseInit ==
    /\ response \in Responses
    /\ parsePc  = "call"
    /\ parsed   = NoParse

ParseIdle ==
    /\ response = <<>>
    /\ parsePc  = "idle"
    /\ parsed   = NoParse

\* actions = self._parse_mouse_actions(response)
ParseCall ==
    /\ parsePc = "call"
    /\ UNCHANGED <<gwVars, clVars, toolVars, ocrVars, apiVars, pureVars>>
    /\ parsed'  = ParseMouseActions(response)
    /\ parsePc' = "done"
    /\ UNCHANGED response

ParseNext == ParseCall

-----------------------------------------------------------------------------
(* Remote OCR client: EasyOCRClient.wait_for_completion (ocr_api_client.py)  *)

max_wait       == 300      \* seconds
check_interval == 5        \* seconds

\* what one status request can come to: a status of the JSON answer, or an
\* exception of requests.get / raise_for_status / status['status']
PollOutcomes  == {"completed", "not_found", "processing", "failed"}
\* seconds a status request takes to be answered
PollDurations == {0, 3}

NoneSeen == [completed |-> FALSE, not_found |-> FALSE, failed |-> FALSE]

WaitInit ==
    /\ waitPc     = "test"
    /\ elapsed    = 0
    /\ polls      = 0
    /\ seen       = NoneSeen
    /\ waitResult = "none"

WaitIdle ==
    /\ waitPc     = "idle"
    /\ elapsed    = 0
    /\ polls      = 0
    /\ seen       = NoneSeen
    /\ waitResult = "none"

\* `while time.time() - start_time < max_wait`, then the call of check_status
\* (requests.get without a timeout) or `return False`
WaitTest ==
    /\ waitPc = "test"
    /\ UNCHANGED <<gwVars, clVars, toolVars, parseVars, apiVars, pureVars>>
    /\ IF elapsed < max_wait
       THEN /\ waitPc' = "poll"
            /\ polls'  = polls + 1
            /\ UNCHANGED waitResult
       ELSE /\ waitPc' = "returned"
            /\ waitResult' = "False"
            /\ UNCHANGED polls
    /\ UNCHANGED <<elapsed, seen>>

\* the status request is answered after d seconds
PollAnswer(outcome, d) ==
    /\ waitPc = "poll"
    /\ UNCHANGED <<gwVars, clVars, toolVars, parseVars, apiVars, pureVars>>
    /\ elapsed' = elapsed + d
    /\ seen' = [completed |-> seen.completed \/ outcome = "completed",
                not_found |-> seen.not_found \/ outcome = "not_found",
                failed    |-> seen.failed \/ outcome = "failed"]
    /\ IF outcome = "completed"
       THEN waitPc' = "returned" /\ waitResult' = "True"
       ELSE IF outcome \in {"not_found", "failed"}
       THEN waitPc' = "raised" /\ waitResult' = "raised"
       ELSE waitPc' = "sleep" /\ UNCHANGED waitResult
    /\ UNCHANGED polls

\* time.sleep(check_interval)
WaitSleep ==
    /\ waitPc = "sleep"
    /\ UNCHANGED <<gwVars, clVars, toolVars, parseVars, apiVars, pureVars>>
    /\ elapsed' = elapsed + check_interval
    /\ waitPc'  = "test"
    /\ UNCHANGED <<polls, seen, waitResult>>

WaitNext ==
    \/ WaitTest
    \/ \E outcome \in PollOutcomes, d \in PollDurations : PollAnswer(outcome, d)
    \/ WaitSleep

-----------------------------------------------------------------------------
(* Automation API server (mouse_api.py)                                      *)

Coords == 0..MaxCoord
Points == Coords \X Coords

\* an optional JSON number: <<>> when the key is missing or null, else <<v>>
Opt(S)      == {<<>>} \cup { <<v>> : v \in S }
IsNone(o)   == o = <<>>
\* Python truthiness of an optional number: None and 0 are falsy
Truthy(o)   == o # <<>> /\ o[1] # 0

\* The capability flags the module sets while it is imported.  The `def` of
\* find_image_in_screen evaluates cv2.TM_CCOEFF_NORMED as a default argument,
\* so a process that serves requests has imported cv2.
StartupStates ==
    [gui : BOOLEAN, ocr_method : {"API", "TESSERACT", "None"},
     opencv : {TRUE}, clipboard : BOOLEAN]

GUI_AVAILABLE(cap)       == cap.gui
OCR_AVAILABLE(cap)       == cap.ocr_method # "None"
OPENCV_AVAILABLE(cap)    == cap.opencv
CLIPBOARD_AVAILABLE(cap) == cap.clipboard
\* `import pytesseract` runs only on the branches that select TESSERACT
PytesseractImported(cap) == cap.ocr_method = "TESSERACT"

\* ---- responses ----

NoError == "absent"
Response(code, status, error, details) ==
    [code |-> code, status |-> status, error |-> error, details |-> details]
NoResponse == Response(0, "none", NoError, {})

ErrorJson(code, error)  == Response(code, "error", error, {})
Unavailable(what)       == ErrorJson(503, what)
BadRequest(error)       == ErrorJson(400, error)
CaughtWithoutError      == Response(500, "error", NoError, {})
Caught                  == ErrorJson(500, "str(e)")
Success                 == Response(200, "success", NoError, {})
NotFound                == Response(200, "not_found", NoError, {})

\* ---- what a handler did ----

Effect(op, at, arg) == [op |-> op, at |-> at, arg |-> arg, to |-> <<>>]
NoOcr == [called |-> FALSE, remote_failed |-> FALSE, local_failed |-> FALSE]

\* the outcome of a handler: the response, the operations performed in order,
\* the pointer and the clipboard afterwards, and what the OCR engines did
Outcome(resp, done, ptr, clip, ocr) ==
    [resp |-> resp, effects |-> done, pointer |-> ptr, clipboard |-> clip,
     ocr |-> ocr]

ValidButtons == {"left", "right", "middle"}

\* ---- /mouse/position, /mouse/move, /mouse/click, /mouse/scroll ----

get_mouse_position(cap, ptr, clip, guiOk) ==
    IF ~GUI_AVAILABLE(cap)
    THEN Outcome(Unavailable("GUI functionality not available"), <<>>, ptr, clip, NoOcr)
    ELSE IF ~guiOk THEN Outcome(Caught, <<>>, ptr, clip, NoOcr)
    ELSE Outcome(Success, <<>>, ptr, clip, NoOcr)

\* body.kind: "ok" | "no_body" | "no_xy" | "not_a_number"
move_mouse(cap, ptr, clip, body, guiOk) ==
    IF ~GUI_AVAILABLE(cap)
    THEN Outcome(Unavailable("GUI functionality not available"), <<>>, ptr, clip, NoOcr)
    ELSE IF body.kind \in {"no_body", "no_xy"}
    THEN Outcome(BadRequest("x and y coordinates required"), <<>>, ptr, clip, NoOcr)
    ELSE IF body.kind = "not_a_number" \/ ~guiOk
    THEN Outcome(Caught, <<>>, ptr, clip, NoOcr)
    ELSE Outcome(Success, << Effect("move", body.at, "") >>, body.at, clip, NoOcr)

\* body.kind: "ok" | "no_body" | "bad_button"; body.at is <<>> or a point
click_mouse(cap, ptr, clip, body, guiOk) ==
    IF ~GUI_AVAILABLE(cap)
    THEN Outcome(Unavailable("GUI functionality not available"), <<>>, ptr, clip, NoOcr)
    ELSE IF body.kind = "bad_button"
    THEN Outcome(BadRequest("Invalid button. Use left, right, or middle"),
                 <<>>, ptr, clip, NoOcr)
    ELSE IF ~guiOk THEN Outcome(Caught, <<>>, ptr, clip, NoOcr)
    ELSE IF body.kind = "ok" /\ body.at # <<>>
    THEN Outcome(Success, << Effect("click", body.at, "left") >>, body.at, clip, NoOcr)
    ELSE Outcome(Success, << Effect("click", ptr, "left") >>, ptr, clip, NoOcr)

\* body.kind: "ok" | "no_body" | "bad_direction" | "bad_clicks"
scroll_mouse(cap, ptr, clip, body, guiOk) ==
    IF ~GUI_AVAILABLE(cap)
    THEN Outcome(Unavailable("GUI functionality not available"), <<>>, ptr, clip, NoOcr)
    ELSE IF body.kind = "no_body"
    THEN Outcome(BadRequest("Request body required"), <<>>, ptr, clip, NoOcr)
    ELSE IF body.kind = "bad_direction"
    THEN Outcome(BadRequest("Invalid direction. Use vertical or horizontal"),
                 <<>>, ptr, clip, NoOcr)
    ELSE IF body.kind = "bad_clicks"
    THEN Outcome(BadRequest("clicks must be an integer"), <<>>, ptr, clip, NoOcr)
    ELSE IF ~guiOk THEN Outcome(Caught, <<>>, ptr, clip, NoOcr)
    ELSE IF body.at # <<>>
    THEN Outcome(Success,
                 << Effect("move", body.at, ""), Effect("scroll", body.at, "vertical") >>,
                 body.at, clip, NoOcr)
    ELSE Outcome(Success, << Effect("scroll", ptr, "vertical") >>, ptr, clip, NoOcr)

\* ---- /mouse/drag ----

\* pyautogui.drag(xOffset, yOffset): a drag relative to the pointer; the
\* effect records where it began and where it ended
RelativeDrag(ptr, dx, dy) ==
    [op |-> "drag", at |-> ptr, arg |-> "left",
     to |-> <<ptr[1] + dx, ptr[2] + dy>>]

\* the drag of the branch `from_x is not None and from_y is not None`
DragFrom(ptr, from, to) == RelativeDrag(ptr, to[1] - from[1], to[2] - from[2])

\* `from_x or current_x` raises UnboundLocalError when from_x is falsy and
\* current_x was never assigned
FromPositionRaises(from_x, from_y, currentBound) ==
    ~currentBound /\ (~Truthy(from_x) \/ ~Truthy(from_y))

\* body: [kind: "ok" | "no_body" | "no_to" | "bad_button", from_x, from_y, to]
drag_mouse(cap, ptr, clip, body, guiOk) ==
    IF ~GUI_AVAILABLE(cap)
    THEN Outcome(Unavailable("GUI functionality not available"), <<>>, ptr, clip, NoOcr)
    ELSE IF body.kind = "no_body"
    THEN Outcome(BadRequest("Request body required"), <<>>, ptr, clip, NoOcr)
    ELSE IF body.kind = "no_to"
    THEN Outcome(BadRequest("to_x and to_y coordinates required"), <<>>, ptr, clip, NoOcr)
    ELSE IF body.kind = "bad_button"
    THEN Outcome(BadRequest("Invalid button. Use left, right, or middle"),
                 <<>>, ptr, clip, NoOcr)
    ELSE IF ~guiOk THEN Outcome(Caught, <<>>, ptr, clip, NoOcr)
    ELSE IF ~IsNone(body.from_x) /\ ~IsNone(body.from_y)
    THEN LET drag == DragFrom(ptr, <<body.from_x[1], body.from_y[1]>>, body.to)
         IN  Outcome(IF FromPositionRaises(body.from_x, body.from_y, FALSE)
                     THEN Caught ELSE Success,
                     << drag >>, drag.to, clip, NoOcr)
    ELSE LET drag == RelativeDrag(ptr, body.to[1] - ptr[1], body.to[2] - ptr[2])
         IN  Outcome(Success, << drag >>, drag.to, clip, NoOcr)

\* ---- /screen/capture, /screen/capture_at_cursor ----

capture_screen(cap, ptr, clip, guiOk) ==
    IF ~GUI_AVAILABLE(cap)
    THEN Outcome(Unavailable("GUI functionality not available"), <<>>, ptr, clip, NoOcr)
    ELSE IF ~guiOk THEN Outcome(Caught, <<>>, ptr, clip, NoOcr)
    ELSE Outcome(Success, << Effect("capture", <<>>, "") >>, ptr, clip, NoOcr)

\* args.kind: "ok" | "missing" | "not_a_number" | "not_positive" | "off_screen"
capture_screen_at_cursor(cap, ptr, clip, args, guiOk) ==
    IF ~GUI_AVAILABLE(cap)
    THEN Outcome(Unavailable("GUI functionality not available"), <<>>, ptr, clip, NoOcr)
    ELSE IF args.kind = "missing"
    THEN Outcome(BadRequest("width and height query parameters required"),
                 <<>>, ptr, clip, NoOcr)
    ELSE IF args.kind = "not_a_number"
    THEN Outcome(BadRequest("width and height must be numbers"), <<>>, ptr, clip, NoOcr)
    ELSE IF args.kind = "not_positive"
    THEN Outcome(BadRequest("width and height must be positive"), <<>>, ptr, clip, NoOcr)
    ELSE IF ~guiOk THEN Outcome(Caught, <<>>, ptr, clip, NoOcr)
    ELSE IF args.kind = "off_screen"
    THEN Outcome(BadRequest("Capture region is out of screen bounds"),
                 << Effect("capture", <<>>, "") >>, ptr, clip, NoOcr)
    ELSE Outcome(Success, << Effect("capture", <<>>, "") >>, ptr, clip, NoOcr)

\* ---- /text/type ----

\* the clipboard after pyperclip.copy(value): a failed write leaves it as it was
ClipAfterCopy(clip, value, ok) == IF ok THEN value ELSE clip
CopyEffect(value, ok) ==
    Effect(IF ok THEN "clip_write" ELSE "clip_write_failed", <<>>, value)

RestoreOnSuccessOnly(preserve, original_ok, exit) ==
    preserve /\ original_ok /\ exit = "pasted"

\* the `finally` of the paste block: the restore runs on every exit of the
\* try - pasted, the write of the text failed, the shortcut raised
Restores(preserve, original_ok, exit) == preserve /\ original_ok

\* the paste block of type_text, entered with the clipboard capability present;
\* env: [read, copy, hotkey, restore : BOOLEAN], TRUE when the call succeeds
PasteBlock(clip, text, preserve, env) ==
    LET original_ok == preserve /\ env.read
        original    == clip
        save        == IF preserve
                       THEN << Effect(IF env.read THEN "clip_read" ELSE "clip_read_failed",
                                      <<>>, "") >>
                       ELSE <<>>
        exit        == IF ~env.copy THEN "copy_failed"
                       ELSE IF ~env.hotkey THEN "hotkey_raised" ELSE "pasted"
        afterCopy   == ClipAfterCopy(clip, text, env.copy)
        body        == << CopyEffect(text, env.copy) >>
                       \o (IF exit = "copy_failed" THEN <<>>
                           ELSE << Effect(IF env.hotkey THEN "hotkey" ELSE "hotkey_raised",
                                          <<>>, "ctrl+v") >>)
        restores    == Restores(preserve, original_ok, exit)
    IN  [exit      |-> exit,
         effects   |-> save \o body
                       \o (IF restores THEN << CopyEffect(original, env.restore) >>
                           ELSE <<>>),
         clipboard |-> IF restores THEN ClipAfterCopy(afterCopy, original, env.restore)
                       ELSE afterCopy]

CopyFailed ==
    Response(503, "error", "Clipboard copy failed", {"details", "hint"})

\* body: [kind: "ok" | "no_text" | "not_a_number", at: <<>> or a point,
\*        mode, preserve_clipboard, press_enter]
\* env:  [gui, read, copy, hotkey, restore : BOOLEAN]
type_text(cap, ptr, clip, body, env) ==
    IF ~GUI_AVAILABLE(cap)
    THEN Outcome(Unavailable("GUI functionality not available"), <<>>, ptr, clip, NoOcr)
    ELSE IF body.kind = "no_text"
    THEN Outcome(BadRequest("text parameter required"), <<>>, ptr, clip, NoOcr)
    ELSE IF body.kind = "not_a_number"
    THEN Outcome(Caught, <<>>, ptr, clip, NoOcr)
    ELSE IF body.at # <<>> /\ ~env.gui
    THEN Outcome(Caught, <<>>, ptr, clip, NoOcr)
    ELSE
      LET click  == IF body.at # <<>> THEN << Effect("click", body.at, "left") >> ELSE <<>>
          ptr1   == IF body.at # <<>> THEN body.at ELSE ptr
          enter  == IF body.press_enter THEN << Effect("press", <<>>, "enter") >> ELSE <<>>
      IN  IF body.mode = "paste"
          THEN IF ~CLIPBOARD_AVAILABLE(cap)
               THEN Outcome(Unavailable("Clipboard functionality not available"),
                            click, ptr1, clip, NoOcr)
               ELSE LET p == PasteBlock(clip, "text", body.preserve_clipboard, env)
                    IN  IF p.exit = "copy_failed"
                        THEN Outcome(CopyFailed, click \o p.effects, ptr1, p.clipboard, NoOcr)
                        ELSE IF p.exit = "hotkey_raised"
                        THEN Outcome(Caught, click \o p.effects, ptr1, p.clipboard, NoOcr)
                        ELSE IF body.press_enter /\ ~env.gui
                        THEN Outcome(Caught, click \o p.effects, ptr1, p.clipboard, NoOcr)
                        ELSE Outcome(Success, click \o p.effects \o enter, ptr1,
                                     p.clipboard, NoOcr)
          ELSE IF ~env.gui
               THEN Outcome(Caught, click, ptr1, clip, NoOcr)
               ELSE Outcome(Success,
                            click \o << Effect("type", <<>>, "text") >> \o enter,
                            ptr1, clip, NoOcr)

\* ---- OCR: the remote service first, the local engine as fallback ----

\* env.remote, env.local: the engine call succeeds; env.found: it finds text
OcrResult(results, remote_failed, local_failed, raised) ==
    [results |-> results, remote_failed |-> remote_failed,
     local_failed |-> local_failed, raised |-> raised]

\* process_image_with_tesseract: every exception is caught inside, and the
\* result is then the empty list; it never raises
process_image_with_tesseract(cap, env) ==
    LET ok == OCR_AVAILABLE(cap) /\ PytesseractImported(cap) /\ env.local
    IN  [results |-> IF ok /\ env.found THEN "some" ELSE "none",
         failed  |-> ~ok,
         raised  |-> FALSE]

\* `if OCR_METHOD == "API": try: <remote> except Exception: <local>` as
\* find_text_positions, capture_screen_with_ocr and extract_text_only have it
OcrWithFallback(cap, env) ==
    IF cap.ocr_method = "API" /\ env.remote
    THEN OcrResult(IF env.found THEN "some" ELSE "none", FALSE, FALSE, FALSE)
    ELSE LET local == process_image_with_tesseract(cap, env)
         IN  OcrResult(local.results, cap.ocr_method = "API", local.failed,
                       local.raised)

OcrUse(o) ==
    [called |-> TRUE, remote_failed |-> o.remote_failed, local_failed |-> o.local_failed]

BothFailed ==
    Response(500, "error", "OCR API failed: ..., Tesseract failed: ...",
             {"remote_failure", "local_failure"})

MatchAt == <<1, 1>>      \* where the text or the image was found

Capture == << Effect("capture", <<>>, "") >>

OcrChecks(cap) ==
    IF ~GUI_AVAILABLE(cap) THEN Unavailable("GUI functionality not available")
    ELSE IF ~OCR_AVAILABLE(cap) THEN Unavailable("OCR functionality not available")
    ELSE NoResponse

\* body.kind: "ok" | "no_text" | "bad_region"
search_text(cap, ptr, clip, body, env) ==
    IF OcrChecks(cap) # NoResponse THEN Outcome(OcrChecks(cap), <<>>, ptr, clip, NoOcr)
    ELSE IF body.kind = "no_text"
    THEN Outcome(BadRequest("text parameter required"), <<>>, ptr, clip, NoOcr)
    ELSE IF ~env.gui THEN Outcome(Caught, <<>>, ptr, clip, NoOcr)
    ELSE IF body.kind = "bad_region"
    THEN Outcome(BadRequest("Unsupported region"), Capture, ptr, clip, NoOcr)
    ELSE LET o == OcrWithFallback(cap, env)
         IN  Outcome(Success, Capture, ptr, clip, OcrUse(o))

\* body.kind: "ok" | "no_text" | "bad_button"
find_and_click_text(cap, ptr, clip, body, env) ==
    IF OcrChecks(cap) # NoResponse THEN Outcome(OcrChecks(cap), <<>>, ptr, clip, NoOcr)
    ELSE IF body.kind = "no_text"
    THEN Outcome(BadRequest("text parameter required"), <<>>, ptr, clip, NoOcr)
    ELSE IF body.kind = "bad_button"
    THEN Outcome(BadRequest("Invalid button. Use left, right, or middle"),
                 <<>>, ptr, clip, NoOcr)
    ELSE IF ~env.gui THEN Outcome(Caught, <<>>, ptr, clip, NoOcr)
    ELSE LET o == OcrWithFallback(cap, env)
         IN  IF o.results = "none"
             THEN Outcome(NotFound, Capture, ptr, clip, OcrUse(o))
             ELSE Outcome(Success, Capture \o << Effect("click", MatchAt, "left") >>,
                          MatchAt, clip, OcrUse(o))

capture_screen_with_ocr(cap, ptr, clip, body, env) ==
    IF OcrChecks(cap) # NoResponse THEN Outcome(OcrChecks(cap), <<>>, ptr, clip, NoOcr)
    ELSE IF body.kind = "not_a_number" \/ ~env.gui
    THEN Outcome(Caught, <<>>, ptr, clip, NoOcr)
    ELSE LET o == OcrWithFallback(cap, env)
         IN  Outcome(Success, Capture, ptr, clip, OcrUse(o))

\* extract_text_only re-raises with both failure texts when the local engine
\* raises after the remote one failed
extract_text_only(cap, ptr, clip, body, env) ==
    IF OcrChecks(cap) # NoResponse THEN Outcome(OcrChecks(cap), <<>>, ptr, clip, NoOcr)
    ELSE IF body.kind = "not_a_number" \/ ~env.gui
    THEN Outcome(Caught, <<>>, ptr, clip, NoOcr)
    ELSE LET o == OcrWithFallback(cap, env)
         IN  IF o.remote_failed /\ o.raised
             THEN Outcome(BothFailed, Capture, ptr, clip, OcrUse(o))
             ELSE Outcome(Success, Capture, ptr, clip, OcrUse(o))

\* ---- /image/search, /image/find_and_click, /health ----

ImageChecks(cap) ==
    IF ~GUI_AVAILABLE(cap) THEN Unavailable("GUI functionality not available")
    ELSE IF ~OPENCV_AVAILABLE(cap) THEN Unavailable("OpenCV functionality not available")
    ELSE NoResponse

\* body.kind: "ok" | "not_a_number" | "no_image" | "bad_image"
search_image(cap, ptr, clip, body, env) ==
    IF ImageChecks(cap) # NoResponse THEN Outcome(ImageChecks(cap), <<>>, ptr, clip, NoOcr)
    ELSE IF body.kind = "not_a_number" THEN Outcome(Caught, <<>>, ptr, clip, NoOcr)
    ELSE IF body.kind = "no_image"
    THEN Outcome(BadRequest("No image file provided"), <<>>, ptr, clip, NoOcr)
    ELSE IF body.kind = "bad_image"
    THEN Outcome(BadRequest("Invalid image file"), <<>>, ptr, clip, NoOcr)
    ELSE IF ~env.gui THEN Outcome(Caught, <<>>, ptr, clip, NoOcr)
    ELSE Outcome(Success, Capture, ptr, clip, NoOcr)

\* body.kind: "ok" | "not_a_number" | "bad_offset" | "bad_button" | "no_image" | "bad_image"
find_and_click_image(cap, ptr, clip, body, env) ==
    IF ImageChecks(cap) # NoResponse THEN Outcome(ImageChecks(cap), <<>>, ptr, clip, NoOcr)
    ELSE IF body.kind = "not_a_number" THEN Outcome(Caught, <<>>, ptr, clip, NoOcr)
    ELSE IF body.kind = "bad_offset"
    THEN Outcome(BadRequest("offset_x and offset_y must be numbers"), <<>>, ptr, clip, NoOcr)
    ELSE IF body.kind = "bad_button"
    THEN Outcome(BadRequest("Invalid button. Use left, right, or middle"),
                 <<>>, ptr, clip, NoOcr)
    ELSE IF body.kind = "no_image"
    THEN Outcome(BadRequest("No image file provided"), <<>>, ptr, clip, NoOcr)
    ELSE IF body.kind = "bad_image"
    THEN Outcome(BadRequest("Invalid image file"), <<>>, ptr, clip, NoOcr)
    ELSE IF ~env.gui THEN Outcome(Caught, <<>>, ptr, clip, NoOcr)
    ELSE IF ~env.found THEN Outcome(NotFound, Capture, ptr, clip, NoOcr)
    ELSE Outcome(Success, Capture \o << Effect("click", MatchAt, "left") >>,
                 MatchAt, clip, NoOcr)

health_check(cap, ptr, clip) ==
    Outcome(Response(200, "healthy", NoError, {}), <<>>, ptr, clip, NoOcr)

\* ---- requests ----

DefaultBody ==
    [kind |-> "ok", at |-> <<>>, from_x |-> <<>>, from_y |-> <<>>, to |-> <<0, 0>>,
     mode |-> "type", preserve_clipboard |-> TRUE, press_enter |-> FALSE]
\* every call into pyautogui, ImageGrab, pyperclip and the OCR engines succeeds
DefaultEnv ==
    [gui |-> TRUE, remote |-> TRUE, local |-> TRUE, found |-> TRUE,
     read |-> TRUE, copy |-> TRUE, hotkey |-> TRUE, restore |-> TRUE]

NoRequest ==
    [route |-> "none", body |-> DefaultBody, env |-> DefaultEnv,
     pointer0 |-> <<0, 0>>, clipboard0 |-> ""]

ApiInit ==
    /\ caps      \in StartupStates
    /\ pointer   \in Points
    /\ clipboard = "original"
    /\ areq      = NoRequest
    /\ aresp     = NoResponse
    /\ effects   = <<>>
    /\ ocrUse    = NoOcr
    /\ apiPc     = "idle"

ApiIdle ==
    /\ caps      = [gui |-> FALSE, ocr_method |-> "None", opencv |-> TRUE,
                    clipboard |-> FALSE]
    /\ pointer   = <<0, 0>>
    /\ clipboard = ""
    /\ areq      = NoRequest
    /\ aresp     = NoResponse
    /\ effects   = <<>>
    /\ ocrUse    = NoOcr
    /\ apiPc     = "off"

\* one request served by its route handler, from the request to the response
Handle(path, body, env, out) ==
    /\ apiPc = "idle"
    /\ UNCHANGED <<gwVars, clVars, toolVars, parseVars, ocrVars, pureVars>>
    /\ areq'      = [route |-> path, body |-> body, env |-> env,
                     pointer0 |-> pointer, clipboard0 |-> clipboard]
    /\ aresp'     = out.resp
    /\ effects'   = out.effects
    /\ pointer'   = out.pointer
    /\ clipboard' = out.clipboard
    /\ ocrUse'    = out.ocr
    /\ apiPc'     = "done"
    /\ UNCHANGED caps

Body(kind)       == [DefaultBody EXCEPT !.kind = kind]
GuiEnv(guiOk)    == [DefaultEnv EXCEPT !.gui = guiOk]
OcrEnv(guiOk, remote, local, found) ==
    [DefaultEnv EXCEPT !.gui = guiOk, !.remote = remote, !.local = local,
                       !.found = found]

GetMousePosition ==
    /\ apiPc = "idle"
    /\ \E guiOk \in BOOLEAN :
           Handle("/mouse/position", DefaultBody, GuiEnv(guiOk),
                  get_mouse_position(caps, pointer, clipboard, guiOk))

PostMouseMove ==
    /\ apiPc = "idle"
    /\ \E kind \in {"ok", "no_body", "no_xy", "not_a_number"}, at \in Points,
          guiOk \in BOOLEAN :
           LET body == [Body(kind) EXCEPT !.at = at]
           IN  Handle("/mouse/move", body, GuiEnv(guiOk),
                      move_mouse(caps, pointer, clipboard, body, guiOk))

PostMouseClick ==
    /\ apiPc = "idle"
    /\ \E kind \in {"ok", "no_body", "bad_button"}, at \in {<<>>} \cup Points,
          guiOk \in BOOLEAN :
           LET body == [Body(kind) EXCEPT !.at = at]
           IN  /\ kind # "ok" => at = <<>>
               /\ Handle("/mouse/click", body, GuiEnv(guiOk),
                         click_mouse(caps, pointer, clipboard, body, guiOk))

PostMouseScroll ==
    /\ apiPc = "idle"
    /\ \E kind \in {"ok", "no_body", "bad_direction", "bad_clicks"},
          at \in {<<>>} \cup Points, guiOk \in BOOLEAN :
           LET body == [Body(kind) EXCEPT !.at = at]
           IN  /\ kind # "ok" => at = <<>>
               /\ Handle("/mouse/scroll", body, GuiEnv(guiOk),
                         scroll_mouse(caps, pointer, clipboard, body, guiOk))

PostMouseDrag ==
    /\ apiPc = "idle"
    /\ \E kind \in {"ok", "no_body", "no_to", "bad_button"},
          from_x \in Opt(Coords), from_y \in Opt(Coords), to \in Points,
          guiOk \in BOOLEAN :
           LET body == [Body(kind) EXCEPT !.from_x = from_x, !.from_y = from_y,
                                          !.to = to]
           IN  /\ kind # "ok" => (from_x = <<>> /\ from_y = <<>> /\ to = <<0, 0>>)
               /\ Handle("/mouse/drag", body, GuiEnv(guiOk),
                         drag_mouse(caps, pointer, clipboard, body, guiOk))

GetScreenCapture ==
    /\ apiPc = "idle"
    /\ \E guiOk \in BOOLEAN :
           Handle("/screen/capture", DefaultBody, GuiEnv(guiOk),
                  capture_screen(caps, pointer, clipboard, guiOk))

GetScreenCaptureAtCursor ==
    /\ apiPc = "idle"
    /\ \E kind \in {"ok", "missing", "not_a_number", "not_positive", "off_screen"},
          guiOk \in BOOLEAN :
           Handle("/screen/capture_at_cursor", Body(kind), GuiEnv(guiOk),
                  capture_screen_at_cursor(caps, pointer, clipboard, Body(kind), guiOk))

PostTextType ==
    /\ apiPc = "idle"
    /\ \E kind \in {"ok", "no_text", "not_a_number"}, at \in {<<>>, MatchAt},
          mode \in {"type", "paste"}, preserve \in BOOLEAN, enter \in BOOLEAN,
          env \in [gui : BOOLEAN, remote : {TRUE}, local : {TRUE}, found : {TRUE},
                   read : BOOLEAN, copy : BOOLEAN, hotkey : BOOLEAN,
                   restore : BOOLEAN] :
           LET body == [Body(kind) EXCEPT !.at = at, !.mode = mode,
                                          !.preserve_clipboard = preserve,
                                          !.press_enter = enter]
           IN  /\ kind # "ok" => (body = Body(kind) /\ env = DefaultEnv)
               /\ mode = "type" =>
                    (env.read /\ env.copy /\ env.hotkey /\ env.restore /\ preserve)
               /\ mode = "paste" => (env.gui /\ (enter => env = DefaultEnv))
               /\ Handle("/text/type", body, env,
                         type_text(caps, pointer, clipboard, body, env))

PostTextSearch ==
    /\ apiPc = "idle"
    /\ \E kind \in {"ok", "no_text", "bad_region"}, guiOk \in BOOLEAN,
          remote \in BOOLEAN, local \in BOOLEAN, found \in BOOLEAN :
           LET env == OcrEnv(guiOk, remote, local, found)
           IN  Handle("/text/search", Body(kind), env,
                      search_text(caps, pointer, clipboard, Body(kind), env))

PostTextFindAndClick ==
    /\ apiPc = "idle"
    /\ \E kind \in {"ok", "no_text", "bad_button"}, guiOk \in BOOLEAN,
          remote \in BOOLEAN, local \in BOOLEAN, found \in BOOLEAN :
           LET env == OcrEnv(guiOk, remote, local, found)
           IN  Handle("/text/find_and_click", Body(kind), env,
                      find_and_click_text(caps, pointer, clipboard, Body(kind), env))

PostScreenCaptureWithOcr ==
    /\ apiPc = "idle"
    /\ \E kind \in {"ok", "not_a_number"}, guiOk \in BOOLEAN,
          remote \in BOOLEAN, local \in BOOLEAN, found \in BOOLEAN :
           LET env == OcrEnv(guiOk, remote, local, found)
           IN  Handle("/screen/capture_with_ocr", Body(kind), env,
                      capture_screen_with_ocr(caps, pointer, clipboard, Body(kind), env))

PostTextOcr ==
    /\ apiPc = "idle"
    /\ \E kind \in {"ok", "not_a_number"}, guiOk \in BOOLEAN,
          remote \in BOOLEAN, local \in BOOLEAN, found \in BOOLEAN :
           LET env == OcrEnv(guiOk, remote, local, found)
           IN  Handle("/text/ocr", Body(kind), env,
                      extract_text_only(caps, pointer, clipboard, Body(kind), env))

PostImageSearch ==
    /\ apiPc = "idle"
    /\ \E kind \in {"ok", "not_a_number", "no_image", "bad_image"},
          guiOk \in BOOLEAN :
           Handle("/image/search", Body(kind), GuiEnv(guiOk),
                  search_image(caps, pointer, clipboard, Body(kind), GuiEnv(guiOk)))

PostImageFindAndClick ==
    /\ apiPc = "idle"
    /\ \E kind \in {"ok", "not_a_number", "bad_offset", "bad_button", "no_image",
                    "bad_image"},
          guiOk \in BOOLEAN, found \in BOOLEAN :
           LET env == OcrEnv(guiOk, TRUE, TRUE, found)
           IN  Handle("/image/find_and_click", Body(kind), env,
                      find_and_click_image(caps, pointer, clipboard, Body(kind), env))

GetHealth ==
    /\ apiPc = "idle"
    /\ Handle("/health", DefaultBody, DefaultEnv,
              health_check(caps, pointer, clipboard))

ApiNext ==
    \/ GetMousePosition
    \/ PostMouseMove
    \/ PostMouseClick
    \/ PostMouseScroll
    \/ PostMouseDrag
    \/ GetScreenCapture
    \/ GetScreenCaptureAtCursor
    \/ PostTextType
    \/ PostTextSearch
    \/ PostTextFindAndClick
    \/ PostScreenCaptureWithOcr
    \/ PostTextOcr
    \/ PostImageSearch
    \/ PostImageFindAndClick
    \/ GetHealth

-----------------------------------------------------------------------------
(* Automation API server: the geometry of /text/search, /image/find_and_click *)
(* and /screen/capture_at_cursor (mouse_api.py)                              *)

Max(a, b) == IF a >= b THEN a ELSE b
Min(a, b) == IF a <= b THEN a ELSE b

\* a box is the tuple (left, top, right, bottom) PIL crops with
BoxWidth(box)  == box[3] - box[1]
BoxHeight(box) == box[4] - box[2]

supported_regions ==
    {"top_half", "bottom_half", "left", "right",
     "top_left", "top_right", "bottom_left", "bottom_right"}

\* region_map.get(region): the box of the named region, None (<<>>) otherwise
get_region_coordinates(size, region) ==
    LET width == size.width  height == size.height
    IN  CASE region = "top_half"     -> <<0, 0, width, height \div 2>>
          [] region = "bottom_half"  -> <<0, height \div 2, width, height>>
          [] region = "left"         -> <<0, 0, width \div 2, height>>
          [] region = "right"        -> <<width \div 2, 0, width, height>>
          [] region = "top_left"     -> <<0, 0, width \div 2, height \div 2>>
          [] region = "top_right"    -> <<width \div 2, 0, width, height \div 2>>
          [] region = "bottom_left"  -> <<0, height \div 2, width \div 2, height>>
          [] region = "bottom_right" -> <<width \div 2, height \div 2, width, height>>
          [] OTHER                   -> <<>>

\* one match moved by the offset: x, y and the origin of its bbox
AdjustMatch(match, x_offset, y_offset) ==
    [match EXCEPT !.x = @ + x_offset, !.y = @ + y_offset,
                  !.bbox.x = @ + x_offset, !.bbox.y = @ + y_offset]

adjust_coordinates_for_regionCentersOnly(found_matches, region_coords) ==
    IF region_coords = <<>> THEN found_matches
    ELSE [i \in 1..Len(found_matches) |->
            [found_matches[i] EXCEPT !.x = @ + region_coords[1],
                                     !.y = @ + region_coords[2]]]

adjust_coordinates_for_region(found_matches, region_coords) ==
    IF region_coords = <<>> THEN found_matches
    ELSE [i \in 1..Len(found_matches) |->
            AdjustMatch(found_matches[i], region_coords[1], region_coords[2])]

\* the outcome of one of these handlers
ScreenOutcome(resp, clicked, box) == [resp |-> resp, clicks |-> clicked, ocrBox |-> box]

\* `match['confidence'] >= min_confidence/100.0`
ConfidentEnough(match, min_confidence) == match.confidence * 100 >= min_confidence

FullBox(size) == <<0, 0, size.width, size.height>>

\* /text/search with GUI and OCR available.  args: has_text, region (<<>> when
\* absent), min_confidence.  env: ocr ("ok" | "raises"), found (the matches
\* find_text_positions returns, relative to the image it was given)
search_text_in_region(size, args, env) ==
    IF ~args.has_text
    THEN ScreenOutcome(BadRequest("text parameter required"), <<>>, <<>>)
    ELSE IF args.region \notin {<<>>, <<"">>} /\ args.region[1] \notin supported_regions
    THEN ScreenOutcome(BadRequest("Unsupported region"), <<>>, <<>>)
    ELSE LET region_coords ==
               IF args.region \in {<<>>, <<"">>} THEN <<>>
               ELSE get_region_coordinates(size, args.region[1])
             box == IF region_coords = <<>> THEN FullBox(size) ELSE region_coords
         IN  IF env.ocr = "raises" THEN ScreenOutcome(Caught, <<>>, box)
             ELSE LET adjusted == adjust_coordinates_for_region(env.found, region_coords)
                      kept(m)  == ConfidentEnough(m, args.min_confidence)
                  IN  ScreenOutcome(
                        Response(200, "success", NoError,
                                 [matches |-> SelectSeq(adjusted, kept),
                                  region  |-> args.region,
                                  coordinates |-> region_coords]),
                        <<>>, box)

\* the crop window of the requested size centered on the cursor, before clipping
CursorWindow(cursor, req_width, req_height) ==
    LET half_w == req_width \div 2
        half_h == req_height \div 2
        left   == cursor[1] - half_w
        top    == cursor[2] - half_h
    IN  <<left, top, left + req_width, top + req_height>>

ClipToScreenRightOnly(box, size) ==
    <<box[1], box[2], Min(size.width, box[3]), Min(size.height, box[4])>>

\* "clip so that it stays within the screen"
ClipToScreen(box, size) ==
    <<Max(0, box[1]), Max(0, box[2]), Min(size.width, box[3]), Min(size.height, box[4])>>

\* /screen/capture_at_cursor with the GUI available.  args: given, numeric,
\* width, height (after int(float(...))).  env: cursor (pyautogui.position())
capture_region_at_cursor(size, args, env) ==
    IF ~args.given
    THEN ScreenOutcome(BadRequest("width and height query parameters required"),
                       <<>>, <<>>)
    ELSE IF ~args.numeric
    THEN ScreenOutcome(BadRequest("width and height must be numbers"), <<>>, <<>>)
    ELSE IF args.width <= 0 \/ args.height <= 0
    THEN ScreenOutcome(BadRequest("width and height must be positive"), <<>>, <<>>)
    ELSE LET box        == ClipToScreen(CursorWindow(env.cursor, args.width, args.height),
                                        size)
             cap_width  == Max(0, BoxWidth(box))
             cap_height == Max(0, BoxHeight(box))
         IN  IF cap_width = 0 \/ cap_height = 0
             THEN ScreenOutcome(BadRequest("Capture region is out of screen bounds"),
                                <<>>, <<>>)
             ELSE ScreenOutcome(
                    Response(200, "success", NoError,
                             [image  |-> box,
                              size   |-> [width |-> cap_width, height |-> cap_height],
                              cursor |-> env.cursor,
                              region |-> [left |-> box[1], top |-> box[2],
                                          right |-> box[3], bottom |-> box[4],
                                          width |-> cap_width, height |-> cap_height],
                              requested |-> [width |-> args.width,
                                             height |-> args.height]]),
                    <<>>, <<>>)

\* list.sort(key=lambda x: x['center_y']): stable, ascending
RECURSIVE InsertByCenterY(_, _)
InsertByCenterY(sorted, m) ==
    IF sorted = <<>> THEN <<m>>
    ELSE IF sorted[Len(sorted)].center_y <= m.center_y THEN Append(sorted, m)
    ELSE Append(InsertByCenterY(SubSeq(sorted, 1, Len(sorted) - 1), m),
                sorted[Len(sorted)])

RECURSIVE SortByCenterY(_)
SortByCenterY(ms) ==
    IF ms = <<>> THEN <<>>
    ELSE InsertByCenterY(SortByCenterY(SubSeq(ms, 1, Len(ms) - 1)), ms[Len(ms)])

ClickTargetsUnsorted(image_matches, click_all) ==
    IF click_all THEN image_matches
    ELSE SubSeq(image_matches, 1, Min(1, Len(image_matches)))

\* `matches.sort(...)`, then `targets = matches if click_all else matches[:1]`
ClickTargets(image_matches, click_all) ==
    LET sorted == SortByCenterY(image_matches)
    IN  IF click_all THEN sorted ELSE SubSeq(sorted, 1, Min(1, Len(sorted)))

ClickPoint(match, offset) ==
    <<match.center_x + offset[1], match.center_y + offset[2]>>

\* /image/find_and_click with GUI and OpenCV available, a readable template and
\* numeric offsets.  args: button, click_all, offset.  env: found (the matches
\* of the template, as the matcher returns them), click ("ok" | "raises")
find_and_click_image_at(args, env) ==
    IF args.button \notin ValidButtons
    THEN ScreenOutcome(BadRequest("Invalid button. Use left, right, or middle"),
                       <<>>, <<>>)
    ELSE IF env.found = <<>>
    THEN ScreenOutcome(Response(200, "not_found", NoError,
                                [clicked |-> <<>>, matches |-> <<>>]), <<>>, <<>>)
    ELSE LET targets == ClickTargets(env.found, args.click_all)
             points  == [i \in 1..Len(targets) |-> ClickPoint(targets[i], args.offset)]
         IN  IF env.click = "raises"
             THEN ScreenOutcome(Caught, <<>>, <<>>)
             ELSE ScreenOutcome(Response(200, "success", NoError,
                                         [clicked |-> points,
                                          matches |-> SortByCenterY(env.found)]),
                                points, <<>>)

\* ---- inputs ----

Screens ==
    { [width |-> w, height |-> h] : w \in 1..MaxScreen, h \in 1..MaxScreen }
        \cup { [width |-> 1000, height |-> 800] }

\* pointer coordinates around and on a screen axis of length n
CursorCoords(n) ==
    (-2..Min(n + 1, MaxScreen + 1)) \cup {n \div 2, n - 1, n, n + 1}

\* requested sizes: none, too small, small, larger than the screen
RequestedSizes(n) == (-1..MaxSize) \cup {n, 2 * n}

\* a recognised record whose center is p, relative to the image OCR was given
FoundRecord(p, confidence) ==
    [x |-> p[1], y |-> p[2],
     bbox |-> [x |-> p[1] \div 2, y |-> p[2] \div 2,
               width  |-> 2 * (p[1] - p[1] \div 2) + 1,
               height |-> 2 * (p[2] - p[2] \div 2) + 1],
     confidence |-> confidence]

\* the records OCR can find in an image of the size of the box
FoundIn(box) ==
    IF BoxWidth(box) <= 0 \/ BoxHeight(box) <= 0 THEN {}
    ELSE { FoundRecord(<<px, py>>, c) :
             px \in {0, BoxWidth(box) - 1}, py \in {0, BoxHeight(box) - 1},
             c \in {0, 90} }

SeqsUpTo(S, n) == UNION { [1..k -> S] : k \in 0..n }

RegionArgs == {<<>>, <<"">>, <<"center">>} \cup { <<r>> : r \in supported_regions }

\* the image OCR is given for a request
SearchBox(size, region) ==
    IF region \in {<<>>, <<"">>} THEN FullBox(size)
    ELSE get_region_coordinates(size, region[1])

ImageMatches ==
    { [center_x |-> cx, center_y |-> cy] : cx \in {100, 300}, cy \in {100, 300} }

\* the matcher returns no two matches with the same center
DistinctMatches ==
    { ms \in SeqsUpTo(ImageMatches, MaxFound) :
        \A i, j \in 1..Len(ms) : i # j => ms[i] # ms[j] }

NoScreenRequest == [route |-> "none", args |-> <<>>, env |-> <<>>]

ScreenInit ==
    /\ screen \in Screens
    /\ sreq   = NoScreenRequest
    /\ sresp  = NoResponse
    /\ clicks = <<>>
    /\ ocrBox = <<>>
    /\ scrPc  = "idle"

ScreenIdle ==
    /\ screen = [width |-> 0, height |-> 0]
    /\ sreq   = NoScreenRequest
    /\ sresp  = NoResponse
    /\ clicks = <<>>
    /\ ocrBox = <<>>
    /\ scrPc  = "off"

\* one request served from beginning to end
ServeScreen(path, args, env, out) ==
    /\ sreq'   = [route |-> path, args |-> args, env |-> env]
    /\ sresp'  = out.resp
    /\ clicks' = out.clicks
    /\ ocrBox' = out.ocrBox
    /\ scrPc'  = "done"
    /\ UNCHANGED screen
    /\ UNCHANGED <<gwVars, clVars, toolVars, parseVars, ocrVars, apiVars,
                   saveVars, textVars, subVars>>

SearchTextInRegion ==
    /\ scrPc = "idle"
    /\ \E has_text \in BOOLEAN, region \in RegionArgs, ocr \in {"ok", "raises"} :
         \E found_matches \in
              (IF has_text /\ ocr = "ok" /\ SearchBox(screen, region) # <<>>
               THEN SeqsUpTo(FoundIn(SearchBox(screen, region)), MaxFound)
               ELSE {<<>>}) :
           LET args == [has_text |-> has_text, region |-> region,
                        min_confidence |-> 10]
               env  == [ocr |-> ocr, found |-> found_matches]
           IN  ServeScreen("/text/search", args, env,
                           search_text_in_region(screen, args, env))

CaptureAtCursor ==
    /\ scrPc = "idle"
    /\ \E given \in BOOLEAN, numeric \in BOOLEAN,
          req_width \in RequestedSizes(screen.width),
          req_height \in RequestedSizes(screen.height),
          cursor_x \in CursorCoords(screen.width),
          cursor_y \in CursorCoords(screen.height) :
         /\ (~given \/ ~numeric) =>
               /\ req_width = 1 /\ req_height = 1
               /\ cursor_x = 0 /\ cursor_y = 0 /\ (~given => numeric)
         /\ LET args == [given |-> given, numeric |-> numeric,
                         width |-> req_width, height |-> req_height]
                env  == [cursor |-> <<cursor_x, cursor_y>>]
            IN  ServeScreen("/screen/capture_at_cursor", args, env,
                            capture_region_at_cursor(screen, args, env))

FindAndClickImage ==
    /\ scrPc = "idle"
    /\ \E button \in {"left", "double"}, click_all \in BOOLEAN,
          offset \in {<<0, 0>>, <<5, -3>>},
          found_matches \in DistinctMatches, click \in {"ok", "raises"} :
         /\ (button # "left" \/ click = "raises") =>
               (offset = <<0, 0>> /\ ~click_all)
         /\ LET args == [button |-> button, click_all |-> click_all,
                         offset |-> offset]
                env  == [found |-> found_matches, click |-> click]
            IN  ServeScreen("/image/find_and_click", args, env,
                            find_and_click_image_at(args, env))

ScreenNext ==
    \/ SearchTextInRegion
    \/ CaptureAtCursor
    \/ FindAndClickImage

-----------------------------------------------------------------------------
(* Automation tool server: saving decoded screenshots (mcp_mouse/server.py)  *)

\* str(i) of a natural number, one token per digit
RECURSIVE Str(_)
Str(i) == IF i < 10 THEN << DigitSeq[i + 1] >>
          ELSE Str(i \div 10) \o << DigitSeq[(i % 10) + 1] >>

\* f"{filename_prefix}.png" and f"{filename_prefix}_{i}.png"
PlainName(filename_prefix)       == filename_prefix \o <<".png">>
NumberedName(filename_prefix, i) == filename_prefix \o <<"_">> \o Str(i) \o <<".png">>

FreePathFromPlain(dir, filename_prefix, i, final_path) == final_path

\* `while final_path.exists(): final_path = ..._{i}.png; i += 1`
RECURSIVE FreePath(_, _, _, _)
FreePath(dir, filename_prefix, i, final_path) ==
    IF final_path \in dir
    THEN FreePath(dir, filename_prefix, i + 1, NumberedName(filename_prefix, i))
    ELSE final_path

\* _save_base64_image_to_png: the path written, and the directory afterwards;
\* a payload that does not decode to an image raises before anything is written
_save_base64_image_to_png(dir, decodes, filename_prefix) ==
    IF ~decodes THEN [raised |-> TRUE, path |-> <<>>, dir |-> dir]
    ELSE LET final_path == FreePath(dir, filename_prefix, 1, PlainName(filename_prefix))
         IN  [raised |-> FALSE, path |-> final_path, dir |-> dir \cup {final_path}]

\* ---- inputs ----

\* the prefixes of screen_capture, screen_capture_with_ocr and
\* screen_capture_at_cursor(1, 1)
Prefixes ==
    { <<"screen_capture">>, <<"screen_capture_with_ocr">>,
      <<"screen_capture_at_cursor", "_", "1", "x", "1">> }

\* files a directory may hold before the first save
EarlierFiles ==
    { PlainName(<<"screen_capture">>), NumberedName(<<"screen_capture">>, 1),
      NumberedName(<<"screen_capture">>, 2),
      PlainName(<<"screen_capture_at_cursor", "_", "1", "x", "1">>) }

SaveInit ==
    /\ output \in SUBSET EarlierFiles
    /\ saved  = <<>>

SaveIdle ==
    /\ output = {}
    /\ saved  = <<>>

\* _with_saved_image(resp, filename_prefix) on a response that carries an image
SaveImage ==
    /\ Len(saved) < MaxSaves
    /\ \E filename_prefix \in Prefixes, decodes \in BOOLEAN :
         LET r == _save_base64_image_to_png(output, decodes, filename_prefix)
         IN  /\ output' = r.dir
             /\ saved'  = Append(saved, [prefix |-> filename_prefix,
                                         raised |-> r.raised, path |-> r.path])
    /\ UNCHANGED <<gwVars, clVars, toolVars, parseVars, ocrVars, apiVars,
                   scrVars, textVars, subVars>>

SaveNext == SaveImage

-----------------------------------------------------------------------------
(* is_subsequence (mouse_api.py)                                             *)

is_subsequenceLoopAdjacent(target_chars, text_chars, i, target_idx) ==
    \E k \in 0..(Len(text_chars) - Len(target_chars)) :
        SubSeq(text_chars, k + 1, k + Len(target_chars)) = target_chars

\* `for char in text`: target_idx after the characters from position i on
RECURSIVE is_subsequenceLoop(_, _, _, _)
is_subsequenceLoop(target_chars, text_chars, i, target_idx) ==
    IF i > Len(text_chars) THEN target_idx = Len(target_chars)
    ELSE IF target_idx < Len(target_chars) /\ text_chars[i] = target_chars[target_idx + 1]
    THEN is_subsequenceLoop(target_chars, text_chars, i + 1, target_idx + 1)
    ELSE is_subsequenceLoop(target_chars, text_chars, i + 1, target_idx)

is_subsequence(target_chars, text_chars) ==
    is_subsequenceLoop(target_chars, text_chars, 1, 0)

\* ---- inputs ----

SubAlphabet == {"a", "b", "c"}

SubTargets == SeqsUpTo(SubAlphabet, MaxTarget)
SubTexts   ==
    SeqsUpTo(SubAlphabet, MaxText) \cup { <<"x", "a", "y", "b", "z", "c">> }

SubseqInit ==
    /\ subTarget \in SubTargets
    /\ subText   \in SubTexts
    /\ subResult = <<>>

SubseqIdle ==
    /\ subTarget = <<>>
    /\ subText   = <<>>
    /\ subResult = <<>>

\* is_subsequence(search_text, found_text)
CallIsSubsequence ==
    /\ subResult = <<>>
    /\ subResult' = << is_subsequence(subTarget, subText) >>
    /\ UNCHANGED <<subTarget, subText>>
    /\ UNCHANGED <<gwVars, clVars, toolVars, parseVars, ocrVars, apiVars,
                   scrVars, saveVars, textVars>>

SubseqNext == CallIsSubsequence

-----------------------------------------------------------------------------
(* Local OCR engine results and text matching (mouse_api.py)                 *)

\* A text is a sequence of characters.  str.lower() on the characters used
LowerChar(c) == IF c = "A" THEN "a" ELSE IF c = "B" THEN "b" ELSE c
LowerText(chars) == [i \in 1..Len(chars) |-> LowerChar(chars[i])]

\* `a in b` for strings
IsSubstring(a, b) ==
    \E k \in 0..(Len(b) - Len(a)) : SubSeq(b, k + 1, k + Len(a)) = a

Abs(n) == IF n < 0 THEN -n ELSE n

RECURSIVE SumSeq(_)
SumSeq(ns) == IF ns = <<>> THEN 0 ELSE Head(ns) + SumSeq(Tail(ns))

RECURSIVE MinSeq(_)
MinSeq(ns) == IF Len(ns) = 1 THEN ns[1] ELSE Min(Head(ns), MinSeq(Tail(ns)))
RECURSIVE MaxSeq(_)
MaxSeq(ns) == IF Len(ns) = 1 THEN ns[1] ELSE Max(Head(ns), MaxSeq(Tail(ns)))

\* the record the engine reports for a word: x, y are the center of its box;
\* grouped_count 0 and match_type "none" stand for the absent fields
WordRecord(chars, bx, by, w, h, confidence) ==
    [text |-> chars, x |-> bx + w \div 2, y |-> by + h \div 2,
     bbox |-> [x |-> bx, y |-> by, width |-> w, height |-> h],
     confidence |-> confidence, grouped_count |-> 0, match_type |-> "none"]

YCenter(bbox) == bbox.y + bbox.height \div 2
XOverlap(a, b) == Max(0, Min(a.x + a.width, b.x + b.width) - Max(a.x, b.x))
YOverlap(a, b) == Max(0, Min(a.y + a.height, b.y + b.height) - Max(a.y, b.y))

\* "the condition under which two results count as duplicates"
IsDuplicate(result, existing) ==
    LET curr_bbox    == result.bbox
        exist_bbox   == existing.bbox
        curr_area    == curr_bbox.width * curr_bbox.height
        exist_area   == exist_bbox.width * exist_bbox.height
        overlap_area == XOverlap(curr_bbox, exist_bbox) * YOverlap(curr_bbox, exist_bbox)
        is_significant_overlap == 2 * overlap_area > Min(curr_area, exist_area)
        is_same_y_center == Abs(YCenter(curr_bbox) - YCenter(exist_bbox)) <= 5
        is_similar_text  ==
            \/ IsSubstring(LowerText(result.text), LowerText(existing.text))
            \/ IsSubstring(LowerText(existing.text), LowerText(result.text))
    IN  \/ is_significant_overlap /\ is_same_y_center
        \/ /\ is_similar_text
           /\ Abs(result.x - existing.x) < 30
           /\ Abs(result.y - existing.y) < 15

\* list.remove(e): without the first element equal to e
RECURSIVE RemoveFirst(_, _)
RemoveFirst(s, e) ==
    IF s = <<>> THEN <<>>
    ELSE IF Head(s) = e THEN Tail(s)
    ELSE <<Head(s)>> \o RemoveFirst(Tail(s), e)

\* one iteration of `for result in best_results`: the first existing result
\* that is a duplicate decides, and the inner loop breaks there
FilterStep(filtered_results, result) ==
    LET dups == { k \in 1..Len(filtered_results) :
                    IsDuplicate(result, filtered_results[k]) }
    IN  IF dups = {} THEN Append(filtered_results, result)
        ELSE LET existing == filtered_results[CHOOSE k \in dups : \A j \in dups : k <= j]
             IN  IF result.confidence > existing.confidence
                 THEN Append(RemoveFirst(filtered_results, existing), result)
                 ELSE filtered_results

RECURSIVE FilterDuplicates(_, _)
FilterDuplicates(best_results, filtered_results) ==
    IF best_results = <<>> THEN filtered_results
    ELSE FilterDuplicates(Tail(best_results),
                          FilterStep(filtered_results, Head(best_results)))

\* process_image_with_tesseract from the best configuration's results on; with
\* OCR_METHOD "API" pytesseract is not imported and the function returns []
filter_best_results(method, best_results) ==
    IF method = "TESSERACT" THEN FilterDuplicates(best_results, <<>>) ELSE <<>>

\* the sort keys: (bbox y, bbox x) in group_nearby_text, bbox x in merge_text_group
SortKey(r, by) ==
    IF by = "top_left" THEN <<r.bbox.y, r.bbox.x>> ELSE <<r.bbox.x, 0>>

KeyLeq(a, b) == a[1] < b[1] \/ (a[1] = b[1] /\ a[2] <= b[2])

\* sorted(..., key=...): stable
RECURSIVE InsertByKey(_, _, _)
InsertByKey(sorted, r, by) ==
    IF sorted = <<>> THEN <<r>>
    ELSE IF KeyLeq(SortKey(sorted[Len(sorted)], by), SortKey(r, by))
    THEN Append(sorted, r)
    ELSE Append(InsertByKey(SubSeq(sorted, 1, Len(sorted) - 1), r, by),
                sorted[Len(sorted)])

RECURSIVE SortedBy(_, _)
SortedBy(rs, by) ==
    IF rs = <<>> THEN <<>>
    ELSE InsertByKey(SortedBy(SubSeq(rs, 1, Len(rs) - 1), by), rs[Len(rs)], by)

\* ' '.join(filter(None, combined_texts))
RECURSIVE JoinTexts(_)
JoinTexts(texts) ==
    IF texts = <<>> THEN <<>>
    ELSE IF Head(texts) = <<>> THEN JoinTexts(Tail(texts))
    ELSE LET rest == JoinTexts(Tail(texts))
         IN  IF rest = <<>> THEN Head(texts) ELSE Head(texts) \o <<" ">> \o rest

\* `for result in sorted_group`: combined_texts after the results from index i on
RECURSIVE CombineTexts(_, _, _)
CombineTexts(sorted_group, i, combined_texts) ==
    IF i > Len(sorted_group) THEN combined_texts
    ELSE LET current_text == sorted_group[i].text
             current_bbox == sorted_group[i].bbox
         IN  IF i = 1 THEN CombineTexts(sorted_group, 2, <<current_text>>)
             ELSE LET prev_bbox  == sorted_group[i - 1].bbox
                      prev_right == prev_bbox.x + prev_bbox.width
                      curr_left  == current_bbox.x
                  IN  IF curr_left <= prev_right + 5 /\ curr_left <= prev_bbox.x + 10
                      THEN CombineTexts(sorted_group, i + 1,
                             IF Len(current_text) > Len(combined_texts[Len(combined_texts)])
                             THEN [combined_texts EXCEPT ![Len(combined_texts)] = current_text]
                             ELSE combined_texts)
                      ELSE CombineTexts(sorted_group, i + 1,
                                        Append(combined_texts, current_text))

\* merge_text_group of two or more records; the averaged confidence is kept
\* in whole units
merge_text_group(text_group) ==
    LET sorted_group == SortedBy(text_group, "left")
        n     == Len(text_group)
        min_x == MinSeq([i \in 1..n |-> text_group[i].bbox.x])
        min_y == MinSeq([i \in 1..n |-> text_group[i].bbox.y])
        max_x == MaxSeq([i \in 1..n |-> text_group[i].bbox.x + text_group[i].bbox.width])
        max_y == MaxSeq([i \in 1..n |-> text_group[i].bbox.y + text_group[i].bbox.height])
        total_weight ==
            SumSeq([i \in 1..n |-> text_group[i].confidence * text_group[i].bbox.width])
        height_weight ==
            SumSeq([i \in 1..n |-> text_group[i].confidence * text_group[i].bbox.height])
        total_area ==
            SumSeq([i \in 1..n |-> text_group[i].bbox.width * text_group[i].bbox.height])
    IN  [text |-> JoinTexts(CombineTexts(sorted_group, 1, <<>>)),
         x |-> IF total_weight > 0
               THEN SumSeq([i \in 1..n |-> text_group[i].x * text_group[i].confidence
                                              * text_group[i].bbox.width])
                      \div total_weight
               ELSE (min_x + max_x) \div 2,
         y |-> IF total_weight > 0
               THEN SumSeq([i \in 1..n |-> text_group[i].y * text_group[i].confidence
                                              * text_group[i].bbox.height])
                      \div height_weight
               ELSE (min_y + max_y) \div 2,
         bbox |-> [x |-> min_x, y |-> min_y,
                   width |-> max_x - min_x, height |-> max_y - min_y],
         confidence |->
               IF total_area > 0
               THEN SumSeq([i \in 1..n |-> text_group[i].confidence
                              * text_group[i].bbox.width * text_group[i].bbox.height])
                      \div total_area
               ELSE SumSeq([i \in 1..n |-> text_group[i].confidence]) \div n,
         grouped_count |-> n,
         match_type |-> "none"]

\* "grouping conditions": result joins the group whose last element is last_result
ShouldGroup(result, last_result, y_tolerance, x_tolerance) ==
    LET curr_bbox  == result.bbox
        last_bbox  == last_result.bbox
        y_diff        == Abs(curr_bbox.y - last_bbox.y)
        y_center_diff == Abs(YCenter(curr_bbox) - YCenter(last_bbox))
        last_right == last_bbox.x + last_bbox.width
        curr_left  == curr_bbox.x
        has_x_overlap == XOverlap(curr_bbox, last_bbox) > 0
        x_gap == IF curr_left > last_right THEN curr_left - last_right ELSE 0
    IN  \/ y_center_diff <= y_tolerance \div 2 /\ has_x_overlap
        \/ y_diff <= y_tolerance /\ 0 <= x_gap /\ x_gap <= x_tolerance
        \/ y_center_diff <= y_tolerance /\ 2 * x_gap <= 3 * x_tolerance

\* a finished group: merged when it has more than one record
CloseGroup(current_group) ==
    IF Len(current_group) > 1 THEN << merge_text_group(current_group) >>
    ELSE current_group

RECURSIVE GroupLoop(_, _, _, _, _, _)
GroupLoop(sorted_results, i, grouped_results, current_group, y_tolerance, x_tolerance) ==
    IF i > Len(sorted_results) THEN grouped_results \o CloseGroup(current_group)
    ELSE LET result == sorted_results[i]
         IN  IF current_group = <<>>
             THEN GroupLoop(sorted_results, i + 1, grouped_results, <<result>>,
                            y_tolerance, x_tolerance)
             ELSE IF ShouldGroup(result, current_group[Len(current_group)],
                                 y_tolerance, x_tolerance)
             THEN GroupLoop(sorted_results, i + 1, grouped_results,
                            Append(current_group, result), y_tolerance, x_tolerance)
             ELSE GroupLoop(sorted_results, i + 1,
                            grouped_results \o CloseGroup(current_group),
                            <<result>>, y_tolerance, x_tolerance)

group_nearby_text(ocr_results, y_tolerance, x_tolerance) ==
    IF ocr_results = <<>> THEN ocr_results
    ELSE GroupLoop(SortedBy(ocr_results, "top_left"), 1, <<>>, <<>>,
                   y_tolerance, x_tolerance)

\* match_result = result.copy() with its match_type
Tagged(result, match_type) == [result EXCEPT !.match_type = match_type]

TagAll(results, match_type) ==
    [i \in 1..Len(results) |-> Tagged(results[i], match_type)]

\* any(char in found_text for char in search_text) or the converse
SharesCharacter(search_chars, found_chars) ==
    \E i \in 1..Len(search_chars), j \in 1..Len(found_chars) :
        search_chars[i] = found_chars[j]

MatchTiersAllAtOnce(grouped_results, search_chars) ==
    LET direct(r) == IsSubstring(search_chars, LowerText(r.text))
        subseq(r) == is_subsequence(search_chars, LowerText(r.text))
    IN  TagAll(SelectSeq(grouped_results, direct), "direct")
          \o TagAll(SelectSeq(grouped_results, subseq), "subsequence")

\* the three tiers over the grouped results, case_sensitive = False
MatchTiers(grouped_results, search_chars) ==
    LET direct(r)  == IsSubstring(search_chars, LowerText(r.text))
        partial(r) == SharesCharacter(search_chars, LowerText(r.text))
        subseq(r)  == is_subsequence(search_chars, LowerText(r.text))
        tier1 == TagAll(SelectSeq(grouped_results, direct), "direct")
        partial_matches == SelectSeq(grouped_results, partial)
        regrouped == IF partial_matches # <<>>
                     THEN group_nearby_text(partial_matches, 15, 80) ELSE <<>>
        tier2 == TagAll(SelectSeq(regrouped, direct), "grouped")
        tier3 == TagAll(SelectSeq(grouped_results, subseq), "subsequence")
    IN  IF tier1 # <<>> THEN tier1
        ELSE IF tier2 # <<>> THEN tier2
        ELSE tier3

\* grouped_results = group_nearby_text(all_results)
GroupedResults(all_results) == group_nearby_text(all_results, 10, 50)

find_text_positions_tesseract(all_results, target_text) ==
    IF all_results = <<>> THEN <<>>
    ELSE MatchTiers(GroupedResults(all_results), LowerText(target_text))

\* the remote service's records that contain the target, case_sensitive = False
find_text_positions_api(ocr_results, target_text) ==
    LET direct(r) == IsSubstring(LowerText(target_text), LowerText(r.text))
    IN  TagAll(SelectSeq(ocr_results, direct), "api_direct")

\* ---- inputs ----

\* words on one text line of height 10: a two-letter word, words close to it,
\* far from it, over it, and the same letters in capitals next to it
Words ==
    { WordRecord(<<"a", "b">>,   0, 0, 20, 10, 60),
      WordRecord(<<"c", "d">>,   8, 0, 20, 10, 90),
      WordRecord(<<"x">>,       16, 0, 20, 10, 50),
      WordRecord(<<"g", "x", "h">>, 22, 0, 20, 10, 80),
      WordRecord(<<"A", "B">>,  25, 0, 20, 10, 40),
      WordRecord(<<"z">>,        5, 6, 10, 10, 70),
      WordRecord(<<"c", "d">>,  70, 2, 20, 10, 85),
      WordRecord(<<"e", "f">>, 140, 1, 20, 10, 75) }

\* the engine reports no record twice
WordLists ==
    { ws \in SeqsUpTo(Words, MaxWords) :
        \A i, j \in 1..Len(ws) : i # j => ws[i] # ws[j] }

Targets ==
    { <<"a", "b">>, <<"b", " ", "e">>, <<"g", "h">>, <<"q">> }

TextInit ==
    /\ engine \in {"API", "TESSERACT"}
    /\ words  \in WordLists
    /\ target \in Targets
    /\ filtered    = <<>>
    /\ grouped     = <<>>
    /\ ocr_method_used = "none"
    /\ textMatches = <<>>
    /\ textPc = "call"

TextIdle ==
    /\ engine = "none"
    /\ words  = <<>>
    /\ target = <<>>
    /\ filtered    = <<>>
    /\ grouped     = <<>>
    /\ ocr_method_used = "none"
    /\ textMatches = <<>>
    /\ textPc = "off"

TextDone(used, results, grouped_results, text_matches) ==
    /\ ocr_method_used' = used
    /\ filtered'    = results
    /\ grouped'     = grouped_results
    /\ textMatches' = text_matches
    /\ textPc'      = "done"
    /\ UNCHANGED <<engine, words, target>>
    /\ UNCHANGED <<gwVars, clVars, toolVars, parseVars, ocrVars, apiVars,
                   scrVars, saveVars, subVars>>

\* find_text_positions with the local engine selected at startup
FindTextLocal ==
    /\ textPc = "call"
    /\ engine = "TESSERACT"
    /\ LET results == filter_best_results(engine, words)
       IN  TextDone("Tesseract", results, GroupedResults(results),
                    find_text_positions_tesseract(results, target))

\* find_text_positions with the remote service selected, the service answering
FindTextRemote ==
    /\ textPc = "call"
    /\ engine = "API"
    /\ TextDone("API", <<>>, <<>>, find_text_positions_api(words, target))

\* find_text_positions with the remote service selected, its call raising
FindTextFallback ==
    /\ textPc = "call"
    /\ engine = "API"
    /\ LET results == filter_best_results(engine, words)
       IN  TextDone("Tesseract (fallback)", results, GroupedResults(results),
                    find_text_positions_tesseract(results, target))

TextNext ==
    \/ FindTextLocal
    \/ FindTextRemote
    \/ FindTextFallback

PureIdle == ScreenIdle /\ SaveIdle /\ TextIdle /\ SubseqIdle

-----------------------------------------------------------------------------
(* Specifications *)

\* The gateway serving one connection, with every request body
Init == GatewayInit /\ ClientIdle /\ ToolsIdle /\ ParseIdle /\ WaitIdle /\ ApiIdle
            /\ PureIdle
Next == GatewayNext({"c1"}, Bodies)
Spec == Init /\ [][Next]_vars

\* The gateway serving two connections at once
NextConcurrent == GatewayNext(Conns, FewBodies)
SpecConcurrent == Init /\ [][NextConcurrent]_vars

\* One augmented client
InitClient == GatewayIdle /\ ClientInit /\ ToolsIdle /\ ParseIdle /\ WaitIdle /\ ApiIdle
            /\ PureIdle
NextClient == ClientNext
SpecClient == InitClient /\ [][NextClient]_vars

\* The automation tool server
InitTools == GatewayIdle /\ ClientIdle /\ ToolsInit /\ ParseIdle /\ WaitIdle /\ ApiIdle
            /\ PureIdle
NextTools == ToolsNext
SpecTools == InitTools /\ [][NextTools]_vars

\* _parse_mouse_actions applied to the directive bodies of a reply
InitParse == GatewayIdle /\ ClientIdle /\ ToolsIdle /\ ParseInit /\ WaitIdle /\ ApiIdle
            /\ PureIdle
NextParse == ParseNext
SpecParse == InitParse /\ [][NextParse]_vars

\* wait_for_completion: the client's own steps are taken whenever they can be;
\* nothing bounds the time a status request takes to be answered
InitWait == GatewayIdle /\ ClientIdle /\ ToolsIdle /\ ParseIdle /\ WaitInit /\ ApiIdle
            /\ PureIdle
NextWait == WaitNext
SpecWait == InitWait /\ [][NextWait]_vars /\ WF_vars(WaitTest) /\ WF_vars(WaitSleep)

\* The automation API server serving one request
InitApi == GatewayIdle /\ ClientIdle /\ ToolsIdle /\ ParseIdle /\ WaitIdle /\ ApiInit
            /\ PureIdle
NextApi == ApiNext
SpecApi == InitApi /\ [][NextApi]_vars

\* The automation API server serving one request whose answer is a matter of
\* screen geometry
InitScreen == GatewayIdle /\ ClientIdle /\ ToolsIdle /\ ParseIdle /\ WaitIdle /\ ApiIdle
                /\ ScreenInit /\ SaveIdle /\ TextIdle /\ SubseqIdle
NextScreen == ScreenNext
SpecScreen == InitScreen /\ [][NextScreen]_vars

\* The tool server saving the screenshots of successive tool calls
InitSave == GatewayIdle /\ ClientIdle /\ ToolsIdle /\ ParseIdle /\ WaitIdle /\ ApiIdle
              /\ ScreenIdle /\ SaveInit /\ TextIdle /\ SubseqIdle
NextSave == SaveNext
SpecSave == InitSave /\ [][NextSave]_vars

\* find_text_positions applied to the words an OCR engine recognised
InitText == GatewayIdle /\ ClientIdle /\ ToolsIdle /\ ParseIdle /\ WaitIdle /\ ApiIdle
              /\ ScreenIdle /\ SaveIdle /\ TextInit /\ SubseqIdle
NextText == TextNext
SpecText == InitText /\ [][NextText]_vars

\* is_subsequence applied to a target and a text
InitSubseq == GatewayIdle /\ ClientIdle /\ ToolsIdle /\ ParseIdle /\ WaitIdle /\ ApiIdle
                /\ ScreenIdle /\ SaveIdle /\ TextIdle /\ SubseqInit
NextSubseq == SubseqNext
SpecSubseq == InitSubseq /\ [][NextSubseq]_vars

-----------------------------------------------------------------------------
(* Claims *)

InFlight(c) == nread[c] - nresolved[c]

\* C1: on one WebSocket connection message handling is strictly sequential:
\* at most one text frame is in flight at any time, and whenever the loop is
\* back at its head to read the next frame, the reply to the previous frame
\* has been sent, or skipped because the socket is closed.
C1_SequentialFrames ==
    \A c \in Conns :
        route[c] = "ws" =>
            /\ InFlight(c) \in {0, 1}
            /\ pc[c] = "ws_read" => InFlight(c) = 0
            /\ (pc[c] = "ws_read" /\ nread[c] > 0) =>
                   resolution[c] \in {"sent", "skipped"}
            /\ pc[c] \in {"ws_dispatch", "ws_reply"} => InFlight(c) = 1

\* C1 witness: a second frame has been read, after the first one was answered
C1_Witness ==
    \E c \in Conns :
        route[c] = "ws" /\ nread[c] >= 2 /\ nresolved[c] = nread[c] - 1
                        /\ pc[c] = "ws_dispatch"

\* the id a frame carries: None when it has no `id`, or is not an object
FrameId(f) == IF f.json = "object" THEN f.id ELSE None

\* C2: every text frame whose handling fails on an open socket gets one error
\* reply carrying the id of that same frame (null when it has none), and the
\* connection stays open for the next frame.
C2_ErrorReplyEchoesFrameId ==
    \A c \in Conns :
        ( /\ route[c] = "ws"
          /\ nread[c] > 0 /\ nresolved[c] = nread[c]
          /\ pending[c].raised
          /\ resolution[c] \in {"sent", "aborted"}
          /\ pc[c] = "ws_read" \/ exitPath[c] = "exception" )
        => /\ reply[c].kind = "error"
           /\ reply[c].id = FrameId(frame[c])
           /\ pc[c] = "ws_read"

\* C3: when a tool call has ended, no MouseApiClient it created is still
\* open, whether its backend calls succeeded or raised.
C3_ToolClientsReleased ==
    \A k \in Calls :
        tcall[k].pc = "done" =>
            \A i \in 1..Len(apiClients) :
                apiClients[i].owner = k => ~IsOpen(apiClients[i])

\* C4: every transport session opened by a gateway route handler or a
\* WebSocket connection is closed once its owning scope has ended, on every
\* exit path; a session is open only inside its scope.
C4_SessionClosedOnEveryExit ==
    \A c \in Conns :
        /\ pc[c] = "done" => client[c].session # "open"
        /\ client[c].session = "open" => pc[c] \notin {"idle", "done"}

\* C4 witness: a scope left by an exception of the handler, its session closed
C4_Witness ==
    \E c \in Conns :
        /\ pc[c] = "done"
        /\ exitPath[c] \in {"upstream", "unknown_method", "init_failure"}
        /\ client[c].session = "closed"

\* C5: once the health probe of initialize() has failed, initialize() has
\* still returned the LLM initialization result with mouse_api_available
\* false, automation stays disabled for the rest of the session: every later
\* send_enhanced_prompt sends the caller's prompt unchanged and executes no
\* action, and send_prompt keeps working.
C5_ProbeFailureDisablesAutomation ==
    /\ ( call.op = "initialize" /\ call.tagsOk /\ call.probe # "200" ) =>
           /\ ~call.raised
           /\ call.result.status = "initialized"
           /\ call.result.mouse_api_available = FALSE
           /\ ~mc.mouse_tools_enabled
    /\ ~initLog.all => ~mc.mouse_tools_enabled
    /\ ( call.op = "send_enhanced_prompt" /\ call.afterProbeFail ) =>
           /\ call.sent = call.prompt
           /\ call.requests = <<>> /\ call.results = <<>>
           /\ "mouse_actions_executed" \notin DOMAIN call.result
    /\ ( call.op = "send_prompt" /\ call.afterProbeFail /\ call.llmOk ) =>
           /\ ~call.raised
           /\ call.result.response = call.reply

\* C5 witness: after a failed probe, an enhanced prompt with actions requested
\* got a reply that carries a well-formed directive
C5_Witness ==
    /\ call.op = "send_enhanced_prompt" /\ call.afterProbeFail
    /\ call.enable /\ call.llmOk /\ call.done
    /\ _parse_mouse_actions(call.reply) # <<>>

\* C6 as claimed: after any sequence of initialize() calls the capability
\* flag equals the mouse_api_available value the most recent one reported.
C6_FlagEqualsLastReport ==
    initLog.any => (mc.mouse_tools_enabled = initLog.last)

\* C6 amended: the capability flag equals the conjunction of the
\* mouse_api_available values reported by the initialize() calls so far: it
\* is enabled while every initialize() reported true, and once one reported
\* false it stays disabled even if a later initialize() reports true.
C6_FlagIsConjunctionOfReports ==
    /\ mc.mouse_tools_enabled = initLog.all
    /\ (initLog.any /\ ~initLog.last) => ~mc.mouse_tools_enabled

\* C6 witness: a re-initialization reported true after an earlier false
C6_Witness ==
    initLog.any /\ initLog.last /\ ~initLog.all /\ ~mc.mouse_tools_enabled

\* C7: send_enhanced_prompt with automation enabled and requested executes
\* the parsed actions one at a time in text order, starts action i+1 only
\* when action i has finished, goes on after a failing action, and ends with
\* exactly one mouse_actions_executed entry per parsed action, in order, each
\* with success and a result or no success and an error.
C7_ActionsInOrder ==
    ( call.op = "send_enhanced_prompt" /\ call.enable /\ call.flag /\ call.llmOk ) =>
        /\ call.actions = _parse_mouse_actions(call.reply)
        /\ Len(call.results) <= Len(call.actions)
        /\ \A i \in 1..Len(call.results) :
               LET e == call.results[i]
               IN  /\ e.action = call.actions[i].action
                   /\ e.params = call.actions[i].params
                   /\ e.success => ("result" \in DOMAIN e /\ "error" \notin DOMAIN e)
                   /\ ~e.success => ("error" \in DOMAIN e /\ "result" \notin DOMAIN e)
        /\ call.inflight # 0 => call.inflight = Len(call.results) + 1
        /\ \A j \in 1..Len(call.requests) :
               LET q == call.requests[j]
               IN  /\ q.index <= Len(call.results) + (IF call.inflight # 0 THEN 1 ELSE 0)
                   /\ q.url = url_map[call.actions[q.index].action]
                   /\ j > 1 => call.requests[j - 1].index < q.index
        /\ call.done =>
               /\ Len(call.results) = Len(call.actions)
               /\ call.actions # <<>> =>
                      ( /\ "mouse_actions_executed" \in DOMAIN call.result
                        /\ call.result.mouse_actions_executed = call.results )

\* C7 witness: a finished call whose first action failed and whose second
\* action succeeded
C7_Witness ==
    /\ call.op = "send_enhanced_prompt" /\ call.done
    /\ Len(call.results) >= 2
    /\ ~call.results[1].success /\ call.results[2].success

\* C8: with automation disabled or not requested, send_enhanced_prompt is
\* send_prompt: the prompt reaches the LLM unchanged, the outcome is the one
\* send_prompt gives, nothing is sent to the automation backend and the
\* result has no mouse_actions_executed.
C8_DisabledIsSendPrompt ==
    ( call.op = "send_enhanced_prompt" /\ ~(call.enable /\ call.flag) ) =>
        LET sp == send_prompt(mc, call.prompt, call.llmOk, call.reply)
        IN  /\ call.sent = call.prompt
            /\ call.sent = sp.sent.prompt
            /\ call.raised = sp.raised
            /\ call.result = sp.result
            /\ call.done /\ mcPc = "ready"
            /\ call.requests = <<>> /\ call.results = <<>>
            /\ "mouse_actions_executed" \notin DOMAIN call.result

\* C8 witness: automation disabled, actions requested, and the reply holds a
\* well-formed directive of a known action
C8_Witness ==
    /\ call.op = "send_enhanced_prompt" /\ call.enable /\ ~call.flag
    /\ call.llmOk /\ call.done
    /\ \E i \in 1..Len(call.reply) :
           call.reply[i].form = "call" /\ call.reply[i].name \in DOMAIN url_map

KnownMethods == {"initialize", "completion", "chat", "enhanced_completion"}

\* C9: on the mouse-enabled gateway POST /mcp and a WebSocket frame dispatch
\* a message to the same handler: for each of initialize, completion, chat
\* and enhanced_completion whose upstream calls succeed, both routes produce
\* the result of that method's handler.
C9_SameHandlerOnBothRoutes ==
    \A c \in Conns :
        ( /\ server.enable_mouse
          /\ route[c] \in {"mcp", "ws"}
          /\ pc[c] \in {"ws_reply", "ws_read", "done"}
          /\ frame[c].json = "object"
          /\ frame[c].method \in KnownMethods
          /\ pending[c].upOk )
        => /\ ~pending[c].raised
           /\ pending[c].handler = HandlerOf(frame[c].method)

\* C10: no client state is shared across gateway requests: a step changes
\* only the client of the connection whose handler took the step, never the
\* server's configuration, and a new client starts from the configured model
\* with automation enabled (on the mouse-enabled gateway).
C10_NoSharedClientState ==
    [][ /\ server' = server
        /\ \A c \in Conns :
              /\ client'[c] # client[c] => pc'[c] # pc[c]
              /\ (pc[c] = "idle" /\ client'[c].cls # "none") =>
                     /\ client'[c].model = server.model
                     /\ client'[c].mouse_tools_enabled = server.enable_mouse ]_vars

\* C10 witness: two live clients that differ in model and in automation flag
C10_Witness ==
    \E c, d \in Conns :
        /\ c # d
        /\ client[c].session = "open" /\ client[d].session = "open"
        /\ client[c].model # client[d].model
        /\ client[c].mouse_tools_enabled # client[d].mouse_tools_enabled

\* the directive of a reply that holds exactly one, once it has been parsed
OneParsed == parsePc = "done" /\ Len(response) = 1 /\ Len(parsed.actions) = 1

C11_Key(name, i) ==
    CASE name = <<"mouse_move">>  /\ i = 0 -> <<"x">>
      [] name = <<"mouse_move">>  /\ i = 1 -> <<"y">>
      [] name = <<"mouse_move">>  /\ i = 2 -> <<"duration">>
      [] name = <<"mouse_click">> /\ i = 0 -> <<"button">>
      [] name = <<"mouse_click">> /\ i = 1 -> <<"x">>
      [] name = <<"mouse_click">> /\ i = 2 -> <<"y">>
      [] name \in {<<"mouse_move">>, <<"mouse_click">>} /\ i > 2 -> NoKey
      [] OTHER -> <<"param_", DigitSeq[i + 1]>>

\* no argument after index i is stored under `key`
LastWrite(name, parts, i, key) ==
    \A j \in (i + 1)..(Len(parts) - 1) :
        key # (IF IsNamed(parts[j + 1]) THEN Strip(KeyPart(parts[j + 1]), Spaces)
               ELSE C11_Key(name, j))

C11_Example ==
    CallText(<<"mouse_move">>,
             << <<"1", "0", "0">>, <<" ", "2", "0", "0">>, <<" ", "1", ".", "0">> >>)

\* C11: a bare argument is stored by its index in the argument list: for
\* mouse_move indices 0/1/2 are x/y/duration, for mouse_click they are
\* button/x/y, for every other action index i is param_<i>; the stored value
\* is the converted argument.  mouse_move(100, 200, 1.0) yields
\* {x: 100, y: 200, duration: 1.0}.
C11_PositionalByIndex ==
    /\ OneParsed =>
         LET name   == ActionName(response[1])
             parts  == ParamParts(response[1])
             params == parsed.actions[1].params
         IN  /\ parsed.actions[1].action = name
             /\ \A i \in 0..(Len(parts) - 1) :
                  (~IsNamed(parts[i + 1]) /\ C11_Key(name, i) # NoKey) =>
                     /\ C11_Key(name, i) \in DOMAIN params
                     /\ LastWrite(name, parts, i, C11_Key(name, i)) =>
                          params[C11_Key(name, i)] =
                            Coerce(Strip(Strip(parts[i + 1], Spaces), Quotes)).val
    /\ (parsePc = "done" /\ response = <<C11_Example>>) =>
         parsed = [raised  |-> FALSE,
                   actions |-> << [action |-> <<"mouse_move">>,
                                   params |-> (<<"x">> :> IntVal(100))
                                           @@ (<<"y">> :> IntVal(200))
                                           @@ (<<"duration">> :> FloatVal(1, 0))] >>]

\* C11 witness: mouse_move(100, 200, 1.0) has been parsed into one action
C11_Witness ==
    /\ OneParsed
    /\ response = <<C11_Example>>
    /\ DOMAIN parsed.actions[1].params = {<<"x">>, <<"y">>, <<"duration">>}

\* a value without one matching pair of surrounding quote characters
C12_UnwrapOnePair(v) ==
    IF Len(v) >= 2 /\ v[1] \in Quotes /\ v[Len(v)] = v[1]
    THEN SubSeq(v, 2, Len(v) - 1) ELSE v

\* C12: for a named argument key=value the key is trimmed and the value is
\* trimmed and unwrapped of exactly one matching pair of surrounding quote
\* characters, and nothing more: unmatched or repeated quote characters stay.
C12_UnwrapsOnePair ==
    OneParsed =>
      LET name   == ActionName(response[1])
          parts  == ParamParts(response[1])
          params == parsed.actions[1].params
      IN  \A i \in 0..(Len(parts) - 1) :
            LET key == Strip(KeyPart(parts[i + 1]), Spaces)
                v   == C12_UnwrapOnePair(Strip(ValuePart(parts[i + 1]), Spaces))
            IN  (IsNamed(parts[i + 1]) /\ LastWrite(name, parts, i, key)
                   /\ ~Coerce(v).raised) =>
                    /\ key \in DOMAIN params
                    /\ params[key] = Coerce(v).val

C13_IsWellFormed(m) == m \in WellFormedMatches

\* the action each accepted directive body stands for
C13_Expected(m) ==
    CASE m = <<"mouse_position", "(", ")">> ->
           [action |-> <<"mouse_position">>, params |-> EmptyParams]
      [] m = <<"mouse_move", "(", "1", "0", ",", " ", "2", "0", ")">> ->
           [action |-> <<"mouse_move">>,
            params |-> (<<"x">> :> IntVal(10)) @@ (<<"y">> :> IntVal(20))]
      [] m = <<"image_search", "(", "image_path", "=", "a", ".", "png", ")">> ->
           [action |-> <<"image_search">>,
            params |-> (<<"image_path">> :> StrVal(<<"a", ".", "png">>))]

C14_ModelSelection ==
    (call.op = "initialize" /\ call.tagsOk) =>
        /\ ~call.raised
        /\ mc.model = IF InSeq(call.modelBefore, call.models) THEN call.modelBefore
                      ELSE IF call.models # <<>> THEN call.models[1]
                      ELSE call.modelBefore
        /\ call.result.status = "initialized"
        /\ call.result.model = mc.model
        /\ call.result.available_models = call.models

\* C14 witness: the configured model is missing from a list of two models and
\* the first of them has become the active model
C14_Witness ==
    /\ call.op = "initialize"
    /\ call.modelBefore = ConfiguredModel
    /\ call.models = <<OtherModel, ThirdModel>>
    /\ mc.model = OtherModel
    /\ ~call.raised

\* C15: the completion wait always terminates: it returns success as soon as
\* a poll reports completed, raises when a poll reports not_found, and returns
\* failure without raising after a bounded number of polls when the status
\* never becomes completed.
C15_WaitTerminates == <>(waitPc \in {"returned", "raised"})

OcrRoutes ==
    {"/text/search", "/text/find_and_click", "/screen/capture_with_ocr", "/text/ocr"}
ImageRoutes == {"/image/search", "/image/find_and_click"}

\* a request whose remote OCR call failed, on a server that selected the
\* remote backend at startup
RemoteFailed ==
    /\ apiPc = "done"
    /\ areq.route \in OcrRoutes
    /\ caps.ocr_method = "API"
    /\ ocrUse.called
    /\ ocrUse.remote_failed

\* C16: when the remote OCR backend was selected at startup and its call
\* fails, the request retries against the local engine and proceeds to a
\* success response; the caller sees a failure only when the local engine
\* fails too, and that error response carries both failure details.
C16_FallbackOrBothFailures ==
    RemoteFailed =>
        IF ocrUse.local_failed
        THEN /\ aresp.status = "error"
             /\ {"remote_failure", "local_failure"} \subseteq aresp.details
        ELSE aresp.status \in {"success", "not_found"}

\* the capabilities the request needs to be served
Needs(r) ==
    (IF r.route # "/health" THEN {"gui"} ELSE {})
        \cup (IF r.route \in OcrRoutes THEN {"ocr"} ELSE {})
        \cup (IF r.route \in ImageRoutes THEN {"opencv"} ELSE {})
        \cup (IF r.route = "/text/type" /\ r.body.mode = "paste"
              THEN {"clipboard"} ELSE {})
Available ==
    (IF GUI_AVAILABLE(caps) THEN {"gui"} ELSE {})
        \cup (IF OCR_AVAILABLE(caps) THEN {"ocr"} ELSE {})
        \cup (IF OPENCV_AVAILABLE(caps) THEN {"opencv"} ELSE {})
        \cup (IF CLIPBOARD_AVAILABLE(caps) THEN {"clipboard"} ELSE {})

\* C17: a well-formed request to a route that needs an unavailable capability
\* is answered 503 {error, status: "error"} and nothing of the operation has
\* been performed: no click, pointer move, keystroke, clipboard write or
\* screen capture.
C17_UnavailableTouchesNothing ==
    (apiPc = "done" /\ areq.body.kind = "ok" /\ areq.env = DefaultEnv
         /\ ~(Needs(areq) \subseteq Available)) =>
        /\ aresp.code = 503
        /\ aresp.status = "error"
        /\ aresp.error # NoError
        /\ effects = <<>>
        /\ pointer = areq.pointer0
        /\ clipboard = areq.clipboard0

Envelope(resp) ==
    /\ resp.status \in {"success", "error", "not_found"}
    /\ resp.status = "error" => resp.error # NoError

\* C18 as stated: every JSON response body of every route carries a status
\* among "success", "error", "not_found", and an error field when the status
\* is "error".
C18_EnvelopeOnEveryRoute == apiPc = "done" => Envelope(aresp)

\* C18: every JSON response body of every route other than /health carries a
\* status among "success", "error", "not_found", and an error field when the
\* status is "error"; the body of /health carries the status "healthy".
C18_EnvelopeExceptHealth ==
    apiPc = "done" =>
        IF areq.route = "/health"
        THEN aresp.status = "healthy" /\ aresp.error = NoError
        ELSE Envelope(aresp)

\* C18 witness: a handler has caught an exception and answered 500 with the
\* error envelope
C18_Witness ==
    /\ apiPc = "done"
    /\ areq.route = "/mouse/move"
    /\ aresp.code = 500
    /\ aresp.status = "error"
    /\ aresp.error # NoError

\* C19: /mouse/drag drags from the given start, or from the current position
\* when from_x and from_y are omitted, to (to_x, to_y), where the pointer
\* ends; a request whose drag was performed is answered with status success.
C19_DragFromStartToEnd ==
    (apiPc = "done" /\ areq.route = "/mouse/drag" /\ effects # <<>>) =>
        LET b == areq.body
            given == ~IsNone(b.from_x) /\ ~IsNone(b.from_y)
        IN  /\ effects[1].op = "drag"
            /\ effects[1].at = IF given THEN <<b.from_x[1], b.from_y[1]>>
                               ELSE areq.pointer0
            /\ effects[1].to = b.to
            /\ pointer = b.to
            /\ aresp.status = "success"

\* a paste-mode request with preserve_clipboard whose original clipboard
\* contents were read
PreservingPaste ==
    /\ apiPc = "done"
    /\ areq.route = "/text/type"
    /\ areq.body.kind = "ok"
    /\ areq.body.mode = "paste"
    /\ areq.body.preserve_clipboard
    /\ GUI_AVAILABLE(caps) /\ CLIPBOARD_AVAILABLE(caps)
    /\ areq.env.read

IsClipboardStep(e) ==
    e.op \in {"clip_read", "clip_read_failed", "clip_write", "clip_write_failed",
              "hotkey", "hotkey_raised"}

\* save, write text, paste shortcut, restore - as far as the request got
C20_Steps ==
    LET env == areq.env
    IN  << Effect("clip_read", <<>>, ""), CopyEffect("text", env.copy) >>
          \o (IF env.copy
              THEN << Effect(IF env.hotkey THEN "hotkey" ELSE "hotkey_raised",
                             <<>>, "ctrl+v") >>
              ELSE <<>>)
          \o << CopyEffect(areq.clipboard0, env.restore) >>

C25_Kind(value) ==
    IF IsDigit(value) THEN "int"
    ELSE IF IsDigit(WithoutDots(value)) THEN "float"
    ELSE IF Len(value) = 1 /\ Lower(value[1]) \in {"true", "false"} THEN "bool"
    ELSE "str"

\* C25: the conversion of argument values is total and ordered: a value of
\* digits becomes an integer, else a value that is all digits without its
\* periods a float, else true/false a boolean, else the string itself; no
\* value, 1.2.3 included, makes the directive fail or be dropped.
C25_CoercionTotalOrdered ==
    (parsePc = "done" /\ Len(response) = 1 /\ response[1] \in CallTexts) =>
      /\ Len(parsed.actions) = 1
      /\ LET name   == ActionName(response[1])
             parts  == ParamParts(response[1])
             params == parsed.actions[1].params
         IN  \A i \in 0..(Len(parts) - 1) :
               LET key == ParamKey(name, parts[i + 1], i)
               IN  (key # NoKey /\ LastWrite(name, parts, i, key)) =>
                     /\ key \in DOMAIN params
                     /\ params[key].t = C25_Kind(ParamValue(parts[i + 1]))


\* the fractional crop a region name stands for on a capture of width w, height h
C21_Crop(region, w, h) ==
    LET x0 == IF region \in {"right", "top_right", "bottom_right"} THEN w \div 2 ELSE 0
        y0 == IF region \in {"bottom_half", "bottom_left", "bottom_right"}
              THEN h \div 2 ELSE 0
        x1 == IF region \in {"left", "top_left", "bottom_left"} THEN w \div 2 ELSE w
        y1 == IF region \in {"top_half", "top_left", "top_right"} THEN h \div 2 ELSE h
    IN  <<x0, y0, x1, y1>>

\* a /text/search request naming a region has been answered
SearchedRegion ==
    /\ scrPc = "done" /\ sreq.route = "/text/search"
    /\ sreq.args.has_text /\ sreq.args.region \notin {<<>>, <<"">>}

\* C21: /text/search with one of the eight named regions runs OCR only on the
\* fractional crop of that region (top_half on 1000x800 is (0,0)-(1000,400)),
\* and every returned match has its x, y and bbox origin equal to the
\* crop-relative value plus the crop's top-left corner, so a region starting at
\* the screen origin adds no offset; an unsupported region name is answered
\* 400 without running OCR.
C21_RegionCropAndOffset ==
    SearchedRegion =>
      LET region == sreq.args.region[1]
          crop   == C21_Crop(region, screen.width, screen.height)
          kept   == SelectSeq(sreq.env.found, LAMBDA m : m.confidence * 100 >= 10)
      IN  /\ region \notin supported_regions =>
                sresp.code = 400 /\ sresp.status = "error" /\ ocrBox = <<>>
          /\ region \in supported_regions =>
                /\ ocrBox = crop
                /\ (region = "top_half" /\ screen = [width |-> 1000, height |-> 800]) =>
                       ocrBox = <<0, 0, 1000, 400>>
                /\ sresp.status = "success" =>
                     /\ Len(sresp.details.matches) = Len(kept)
                     /\ \A i \in 1..Len(kept) :
                          LET m == sresp.details.matches[i]
                          IN  /\ m.x = kept[i].x + crop[1]
                              /\ m.y = kept[i].y + crop[2]
                              /\ m.bbox.x = kept[i].bbox.x + crop[1]
                              /\ m.bbox.y = kept[i].bbox.y + crop[2]
                              /\ (crop[1] = 0 /\ crop[2] = 0) =>
                                    (m.x = kept[i].x /\ m.y = kept[i].y)

\* C21 witness: a match found in the bottom-right quadrant of the 1000x800
\* screen has been returned in full-screen coordinates
C21_Witness ==
    /\ SearchedRegion
    /\ screen = [width |-> 1000, height |-> 800]
    /\ sreq.args.region = <<"bottom_right">>
    /\ sresp.status = "success"
    /\ Len(sresp.details.matches) = 1
    /\ sresp.details.matches[1].x = 999 /\ sresp.details.matches[1].y = 799
    /\ ocrBox = <<500, 400, 1000, 800>>


\* an /image/find_and_click request with a valid button has been answered and
\* no click raised
ClickRequestServed ==
    /\ scrPc = "done" /\ sreq.route = "/image/find_and_click"
    /\ sreq.args.button \in ValidButtons /\ sreq.env.click = "ok"

\* C22: /image/find_and_click orders the matches by ascending center_y; with
\* click_all=false it clicks exactly one point, the match with the smallest
\* center_y at (center_x+offset_x, center_y+offset_y); with click_all=true it
\* clicks every match once in that ascending order; with no match it answers
\* not_found and clicks nothing.
C22_ClicksTopmostFirst ==
    /\ (scrPc = "done" /\ sreq.route = "/image/find_and_click"
          /\ sresp.status = "not_found") => clicks = <<>>
    /\ ClickRequestServed =>
         LET ms == sreq.env.found
             n  == Len(ms)
             at(m) == <<m.center_x + sreq.args.offset[1],
                        m.center_y + sreq.args.offset[2]>>
         IN  /\ n = 0 => (sresp.status = "not_found" /\ clicks = <<>>)
             /\ (n > 0 /\ ~sreq.args.click_all) =>
                   /\ sresp.status = "success"
                   /\ Len(clicks) = 1
                   /\ \E k \in 1..n :
                        /\ \A j \in 1..n : ms[k].center_y <= ms[j].center_y
                        /\ clicks[1] = at(ms[k])
             /\ (n > 0 /\ sreq.args.click_all) =>
                   /\ sresp.status = "success"
                   /\ Len(clicks) = n
                   /\ \E p \in [1..n -> 1..n] :
                        /\ \A i, j \in 1..n : i # j => p[i] # p[j]
                        /\ \A i \in 1..n : clicks[i] = at(ms[p[i]])
                        /\ \A i \in 1..(n - 1) :
                              ms[p[i]].center_y <= ms[p[i + 1]].center_y

\* C22 witness: of two matches at center_y 300 and 100, in that order, only
\* the one at center_y 100 has been clicked, moved by the offset (5, -3)
C22_Witness ==
    /\ ClickRequestServed
    /\ ~sreq.args.click_all
    /\ sreq.args.offset = <<5, -3>>
    /\ sreq.env.found = << [center_x |-> 100, center_y |-> 300],
                           [center_x |-> 300, center_y |-> 100] >>
    /\ clicks = << <<305, 97>> >>


\* a /screen/capture_at_cursor request with positive width and height has been
\* answered
CapturedAtCursor ==
    /\ scrPc = "done" /\ sreq.route = "/screen/capture_at_cursor"
    /\ sreq.args.given /\ sreq.args.numeric
    /\ sreq.args.width > 0 /\ sreq.args.height > 0

\* C24: for every cursor position and every positive requested size the
\* returned region satisfies 0 <= left < right <= screen width and
\* 0 <= top < bottom <= screen height, is at most the requested size, is
\* exactly the requested size when the window centered on the cursor lies on
\* the screen, and contains the cursor whenever the cursor is on the screen; a
\* window that clips to nothing is answered with an error, not an image.
C24_ClippedRegionInBounds ==
    CapturedAtCursor =>
      LET cx == sreq.env.cursor[1]
          cy == sreq.env.cursor[2]
          w  == sreq.args.width
          h  == sreq.args.height
          l0 == cx - w \div 2
          t0 == cy - h \div 2
          onScreenWindow == l0 >= 0 /\ t0 >= 0 /\ l0 + w <= screen.width
                              /\ t0 + h <= screen.height
          cursorOnScreen == cx >= 0 /\ cx < screen.width /\ cy >= 0 /\ cy < screen.height
          empty == \/ l0 + w <= 0 \/ l0 >= screen.width
                   \/ t0 + h <= 0 \/ t0 >= screen.height
      IN  /\ sresp.status \in {"success", "error"}
          /\ empty <=> sresp.status = "error"
          /\ sresp.status = "error" => sresp.code = 400
          /\ sresp.status = "success" =>
               LET g == sresp.details.region
               IN  /\ 0 <= g.left /\ g.left < g.right /\ g.right <= screen.width
                   /\ 0 <= g.top /\ g.top < g.bottom /\ g.bottom <= screen.height
                   /\ g.width = g.right - g.left /\ g.height = g.bottom - g.top
                   /\ g.width <= w /\ g.height <= h
                   /\ sresp.details.image = <<g.left, g.top, g.right, g.bottom>>
                   /\ onScreenWindow => (g.width = w /\ g.height = h)
                   /\ cursorOnScreen =>
                        /\ g.left <= cx /\ cx < g.right
                        /\ g.top <= cy /\ cy < g.bottom
          /\ cursorOnScreen => sresp.status = "success"

\* C24 witness: at the left edge of a screen three wide a capture of width 3
\* has been clipped to width 2 and still holds the cursor
C24_Witness ==
    /\ CapturedAtCursor
    /\ screen.width = 3 /\ sreq.env.cursor[1] = 0 /\ sreq.args.width = 3
    /\ sresp.status = "success"
    /\ sresp.details.region.left = 0 /\ sresp.details.region.right = 2


\* the save that the step from saved to saved' has made
C23_Step ==
    /\ output \subseteq output'
    /\ saved' # saved =>
         LET e == saved'[Len(saved')]
             p == e.prefix
         IN  IF e.raised THEN output' = output
             ELSE /\ e.path \notin output
                  /\ output' = output \cup {e.path}
                  /\ PlainName(p) \notin output => e.path = PlainName(p)
                  /\ PlainName(p) \in output =>
                       \E i \in 1..(Cardinality(output) + 1) :
                          /\ e.path = NumberedName(p, i)
                          /\ \A j \in 1..(i - 1) : NumberedName(p, j) \in output

\* n saves with one prefix into an empty directory
C23_Run ==
    (/\ saved # <<>>
     /\ \A k \in 1..Len(saved) : ~saved[k].raised /\ saved[k].prefix = saved[1].prefix
     /\ output = { saved[k].path : k \in 1..Len(saved) }) =>
       \A k \in 1..Len(saved) :
          saved[k].path = IF k = 1 THEN PlainName(saved[1].prefix)
                          ELSE NumberedName(saved[1].prefix, k - 1)

\* C23: saving a decoded screenshot never overwrites an existing file: a save
\* with prefix p writes p.png when that name is free and otherwise the first
\* free name among p_1.png, p_2.png, ...; n saves with one prefix into an empty
\* directory give p.png, p_1.png, ..., p_(n-1).png, all present afterwards.
C23_NeverOverwrites == [][C23_Step]_vars /\ []C23_Run

\* C23 witness: two saves with the prefix screen_capture into an empty
\* directory have produced screen_capture.png and screen_capture_1.png
C23_Witness ==
    /\ Len(saved) = 2
    /\ saved[1].path = PlainName(<<"screen_capture">>)
    /\ saved[2].path = NumberedName(<<"screen_capture">>, 1)
    /\ output = { PlainName(<<"screen_capture">>), NumberedName(<<"screen_capture">>, 1) }


\* the reference relation: the characters of t occur in s at increasing positions
C30_IsSubsequence(t, s) ==
    \E f \in [1..Len(t) -> 1..Len(s)] :
        /\ \A i \in 1..Len(t) : s[f[i]] = t[i]
        /\ \A i \in 1..(Len(t) - 1) : f[i] < f[i + 1]

\* C30: is_subsequence accepts a target exactly when its characters all occur
\* in the text in the same relative order, adjacent or not: abc matches xaybzc
\* and does not match acb.
C30_SubsequenceIsReference ==
    subResult # <<>> =>
      /\ subResult[1] = C30_IsSubsequence(subTarget, subText)
      /\ (subTarget = <<"a", "b", "c">> /\ subText = <<"x", "a", "y", "b", "z", "c">>)
            => subResult[1]
      /\ (subTarget = <<"a", "b", "c">> /\ subText = <<"a", "c", "b">>)
            => ~subResult[1]

\* C30 witness: abc has been accepted in xaybzc
C30_Witness ==
    /\ subTarget = <<"a", "b", "c">>
    /\ subText = <<"x", "a", "y", "b", "z", "c">>
    /\ subResult = <<TRUE>>


\* the local engine has filtered and matched the words of an image
LocalDone == textPc = "done" /\ ocr_method_used = "Tesseract"

\* C26: after the local engine's duplicate filtering no two remaining records
\* are duplicates of each other, whatever the order of the input, and of two
\* input records that satisfy the duplicate condition only the one with the
\* higher confidence is kept.
C26_NoDuplicatesRemain ==
    LocalDone =>
      /\ \A i, j \in 1..Len(filtered) :
            i # j => ~IsDuplicate(filtered[i], filtered[j])
      /\ \A i, j \in 1..Len(words) :
            (IsDuplicate(words[i], words[j])
               /\ words[i].confidence < words[j].confidence) =>
                  \A k \in 1..Len(filtered) : filtered[k] # words[i]

BoxInside(a, b) ==
    /\ b.x <= a.x /\ a.x + a.width <= b.x + b.width
    /\ b.y <= a.y /\ a.y + a.height <= b.y + b.height

GroupedCount(r) == IF r.grouped_count = 0 THEN 1 ELSE r.grouped_count

\* a text without its spaces
RECURSIVE Unspaced(_)
Unspaced(chars) ==
    IF chars = <<>> THEN <<>>
    ELSE (IF Head(chars) = " " THEN <<>> ELSE <<Head(chars)>>) \o Unspaced(Tail(chars))

\* three records side by side on one line: vertical centers within 5 of each
\* other, and from each to the next a gap of 0 to 50
ThreeAdjacent(rs) ==
    /\ Len(rs) = 3
    /\ \A i, j \in 1..3 : Abs(YCenter(rs[i].bbox) - YCenter(rs[j].bbox)) <= 5
    /\ \A i \in 1..2 :
          LET gap == rs[i + 1].bbox.x - (rs[i].bbox.x + rs[i].bbox.width)
          IN  0 <= gap /\ gap <= 50

\* C27: nearby-text grouping loses and duplicates no record: every input
\* record lies in an output record and the grouped_count values (1 for a
\* record without one) add up to the number of input records; three records
\* side by side on one line become one record with grouped_count 3 whose text
\* lists the three texts from left to right.
C27_GroupingKeepsEveryRecord ==
    LocalDone =>
      /\ SumSeq([k \in 1..Len(grouped) |-> GroupedCount(grouped[k])]) = Len(filtered)
      /\ \A i \in 1..Len(filtered) :
            \E k \in 1..Len(grouped) : BoxInside(filtered[i].bbox, grouped[k].bbox)
      /\ LET byLeft == SortedBy(filtered, "left")
         IN  ThreeAdjacent(byLeft) =>
               /\ Len(grouped) = 1
               /\ grouped[1].grouped_count = 3
               /\ Unspaced(grouped[1].text) =
                     byLeft[1].text \o byLeft[2].text \o byLeft[3].text

\* C28: when records are merged, two horizontally consecutive texts are joined
\* without a separator when the gap between them is at most 5 pixels and with
\* exactly one space otherwise; when the second nearly fully overlaps the
\* first, only the longer of the two texts is kept.
C28_MergeSeparators ==
    (LocalDone /\ Len(filtered) = 2 /\ Len(grouped) = 1) =>
      LET byLeft == SortedBy(filtered, "left")
          first  == byLeft[1]
          second == byLeft[2]
          gap    == second.bbox.x - (first.bbox.x + first.bbox.width)
          overlapsNearlyFully == second.bbox.x <= first.bbox.x + 10
      IN  grouped[1].text =
            IF overlapsNearlyFully
            THEN (IF Len(second.text) > Len(first.text) THEN second.text ELSE first.text)
            ELSE IF gap <= 5 THEN first.text \o second.text
            ELSE first.text \o <<" ">> \o second.text


\* the texts a call recognised: the remote service's records, or the local
\* engine's grouped records
Recognised == IF ocr_method_used = "API" THEN words ELSE grouped

MatchTypes == { textMatches[i].match_type : i \in 1..Len(textMatches) }

SearchChars == LowerText(target)

HasDirect(rs) ==
    \E i \in 1..Len(rs) : IsSubstring(SearchChars, LowerText(rs[i].text))

HasSubsequence(rs) ==
    \E i \in 1..Len(rs) : is_subsequence(SearchChars, LowerText(rs[i].text))

\* the looser re-grouping of the records that share a character with the target
Regrouped(rs) ==
    LET partial(r) == SharesCharacter(SearchChars, LowerText(r.text))
        partial_matches == SelectSeq(rs, partial)
    IN  IF partial_matches = <<>> THEN <<>>
        ELSE group_nearby_text(partial_matches, 15, 80)

\* the three tiers in order over the records rs
TiersInOrder(rs) ==
    /\ Cardinality(MatchTypes) <= 1
    /\ HasDirect(rs) => MatchTypes = {"direct"}
    /\ (~HasDirect(rs) /\ HasDirect(Regrouped(rs))) => MatchTypes = {"grouped"}
    /\ (~HasDirect(rs) /\ ~HasDirect(Regrouped(rs)) /\ HasSubsequence(rs)) =>
          MatchTypes = {"subsequence"}
    /\ (~HasDirect(rs) /\ ~HasDirect(Regrouped(rs)) /\ ~HasSubsequence(rs)) =>
          textMatches = <<>>

RegroupedMatch == LocalDone /\ MatchTypes = {"grouped"}

====
